---- MODULE Spec2Model ----
(***************************************************************************)
(* SkillRoute skill-gap analyzer: the taxonomy-driven skill extractor      *)
(* (extractor.py), the match scorer and the velocity roadmap builder       *)
(* (matcher.py) and the /analyze-gap request handler (gap_analyzer.py).    *)
(*                                                                         *)
(* Text is modelled as TLA+ strings, i.e. sequences of characters, so that *)
(* cleaning, tokenizing, alias normalization and sorting are computed      *)
(* character by character as the Python code computes them.                *)
(*                                                                         *)
(* Python floats that carry two decimals (match_percentage,                *)
(* job_readiness_score, the breadth bonus) are kept as integers in         *)
(* hundredths; weeks_to_readiness, which carries one decimal, is kept in   *)
(* tenths.  The field names carry the unit (_x100, _x10).                  *)
(***************************************************************************)
EXTENDS Integers, Sequences, FiniteSets, TLC

(***************************************************************************)
(* extractor.py: the static tables                                         *)
(***************************************************************************)

SKILLS_TAXONOMY ==
       "language" :> {
        "python", "javascript", "typescript", "java", "c++", "c#", "go",
        "golang", "rust", "ruby", "php", "swift", "kotlin", "scala", "r",
        "matlab", "dart", "perl", "bash", "shell", "powershell", "sql",
        "html", "css", "sass", "less", "objective-c", "groovy", "lua",
        "haskell", "erlang", "elixir", "clojure", "f#", "cobol", "fortran",
        "solidity", "assembly"
       }
    @@ "framework" :> {
        "react", "angular", "vue", "svelte", "nextjs", "nuxtjs", "gatsby",
        "remix", "astro", "react native", "flutter", "ionic", "electron",
        "django", "flask", "fastapi", "spring", "spring boot", "express",
        "nestjs", "koa", "hapi", "laravel", "rails", "ruby on rails",
        "asp.net", ".net core", "blazor", "quarkus", "micronaut", "ktor",
        "pytorch", "tensorflow", "keras", "jax", "scikit-learn", "xgboost",
        "lightgbm", "catboost", "huggingface", "transformers", "langchain",
        "llamaindex", "pandas", "numpy", "scipy", "matplotlib", "seaborn",
        "plotly", "bokeh", "streamlit", "gradio", "bootstrap", "tailwind",
        "material ui", "chakra ui", "ant design", "shadcn", "redux",
        "zustand", "mobx", "graphql", "apollo", "trpc", "sqlalchemy",
        "alembic", "prisma", "mongoose", "typeorm", "hibernate", "junit",
        "pytest", "jest", "vitest", "cypress", "playwright", "selenium",
        "mocha", "chai", "storybook", "celery", "grpc", "opentelemetry"
       }
    @@ "tool" :> {
        "git", "github", "gitlab", "bitbucket", "docker", "kubernetes",
        "k8s", "helm", "jenkins", "github actions", "circleci", "travis ci",
        "teamcity", "argocd", "flux", "terraform", "pulumi", "ansible",
        "puppet", "chef", "vagrant", "nginx", "apache", "linux", "ubuntu",
        "centos", "debian", "jira", "confluence", "notion", "figma",
        "postman", "swagger", "openapi", "webpack", "vite", "babel",
        "eslint", "prettier", "sonarqube", "sentry", "grafana", "prometheus",
        "datadog", "splunk", "elasticsearch", "logstash", "kibana",
        "new relic", "airflow", "dbt", "mlflow", "wandb", "dvc", "ray",
        "kafka", "rabbitmq", "nats", "socket.io", "websockets", "oauth",
        "jwt", "keycloak", "vault", "istio", "envoy", "linkerd"
       }
    @@ "database" :> {
        "mysql", "postgresql", "postgres", "sqlite", "mongodb", "cassandra",
        "couchdb", "dynamodb", "firestore", "firebase", "oracle", "mssql",
        "sql server", "mariadb", "neo4j", "influxdb", "clickhouse",
        "snowflake", "bigquery", "hive", "redis", "pinecone", "weaviate",
        "chroma", "qdrant", "supabase", "planetscale", "neon", "fauna"
       }
    @@ "cloud" :> {
        "aws", "azure", "gcp", "google cloud", "heroku", "digitalocean",
        "vercel", "netlify", "cloudflare", "linode", "vultr", "ec2", "s3",
        "lambda", "rds", "eks", "ecs", "fargate", "sqs", "sns",
        "api gateway", "amplify", "azure functions", "azure devops",
        "azure aks", "cloud run", "app engine", "gke", "cloud functions",
        "firebase hosting"
       }

SKILL_ALIASES ==
       "react.js" :> "react"
    @@ "reactjs" :> "react"
    @@ "react js" :> "react"
    @@ "vue.js" :> "vue"
    @@ "vuejs" :> "vue"
    @@ "vue js" :> "vue"
    @@ "next.js" :> "nextjs"
    @@ "next js" :> "nextjs"
    @@ "nuxt.js" :> "nuxtjs"
    @@ "nuxt js" :> "nuxtjs"
    @@ "nest.js" :> "nestjs"
    @@ "nestjs" :> "nestjs"
    @@ "node.js" :> "nodejs"
    @@ "nodejs" :> "nodejs"
    @@ "node js" :> "nodejs"
    @@ "express.js" :> "express"
    @@ "expressjs" :> "express"
    @@ "scikit learn" :> "scikit-learn"
    @@ "sklearn" :> "scikit-learn"
    @@ "tf" :> "tensorflow"
    @@ "torch" :> "pytorch"
    @@ "postgres" :> "postgresql"
    @@ "pg" :> "postgresql"
    @@ "mongo" :> "mongodb"
    @@ "mongo db" :> "mongodb"
    @@ "ms sql" :> "mssql"
    @@ "microsoft sql server" :> "sql server"
    @@ "amazon web services" :> "aws"
    @@ "google cloud platform" :> "gcp"
    @@ "microsoft azure" :> "azure"
    @@ "k8s" :> "kubernetes"
    @@ "js" :> "javascript"
    @@ "ts" :> "typescript"
    @@ "py" :> "python"
    @@ "c sharp" :> "c#"
    @@ "c plus plus" :> "c++"
    @@ "tailwindcss" :> "tailwind"
    @@ "tailwind css" :> "tailwind"
    @@ "material-ui" :> "material ui"
    @@ "mui" :> "material ui"
    @@ "gh actions" :> "github actions"
    @@ "ci cd" :> "ci/cd"
    @@ "cicd" :> "ci/cd"
    @@ "rest api" :> "rest"
    @@ "restful" :> "rest"
    @@ "rest apis" :> "rest"
    @@ "spring-boot" :> "spring boot"

\* Insertion order of the categories in the SKILLS_TAXONOMY literal.
CATEGORIES == <<"language", "framework", "tool", "database", "cloud">>

\* The dict comprehension visits the categories in insertion order, so a
\* skill listed under two categories would keep the last one.
_SKILL_TO_CATEGORY ==
    [s \in UNION {SKILLS_TAXONOMY[c] : c \in DOMAIN SKILLS_TAXONOMY} |->
        LET last == CHOOSE i \in 1..Len(CATEGORIES) :
                        /\ s \in SKILLS_TAXONOMY[CATEGORIES[i]]
                        /\ \A j \in (i+1)..Len(CATEGORIES) :
                               s \notin SKILLS_TAXONOMY[CATEGORIES[j]]
        IN  CATEGORIES[last]]

(***************************************************************************)
(* Python str primitives, character by character (ASCII)                   *)
(***************************************************************************)

\* The printable ASCII characters in code-point order, in runs named by the
\* code point of their first character (the double quote 34, the backslash 92
\* and the backquote 96 are left out).
ASCII_FROM_32 == " !"
ASCII_FROM_35 == "#$%&'()*+,-./0123456789:;<=>?@ABCDEFGHIJKLMNOPQRSTUVWXYZ["
ASCII_FROM_93 == "]^_"
ASCII_FROM_97 == "abcdefghijklmnopqrstuvwxyz{|}~"

UPPER == "ABCDEFGHIJKLMNOPQRSTUVWXYZ"
LOWER == "abcdefghijklmnopqrstuvwxyz"
DIGITS == "0123456789"

CharAt(s, i) == SubSeq(s, i, i)

CharIn(c, alphabet) == \E i \in 1..Len(alphabet) : CharAt(alphabet, i) = c

IndexIn(c, alphabet) == CHOOSE i \in 1..Len(alphabet) : CharAt(alphabet, i) = c

\* ord(c)
Ord(c) ==
    IF c = "\t" THEN 9
    ELSE IF c = "\n" THEN 10
    ELSE IF c = "\r" THEN 13
    ELSE IF CharIn(c, ASCII_FROM_32) THEN 31 + IndexIn(c, ASCII_FROM_32)
    ELSE IF CharIn(c, ASCII_FROM_35) THEN 34 + IndexIn(c, ASCII_FROM_35)
    ELSE IF CharIn(c, ASCII_FROM_93) THEN 92 + IndexIn(c, ASCII_FROM_93)
    ELSE 96 + IndexIn(c, ASCII_FROM_97)

\* a < b on Python str: lexicographic on code points, a proper prefix first.
StrLess(a, b) ==
    \E k \in 1..Len(b) :
        /\ k <= Len(a) + 1
        /\ \A j \in 1..(k-1) : CharAt(a, j) = CharAt(b, j)
        /\ \/ k = Len(a) + 1
           \/ Ord(CharAt(a, k)) < Ord(CharAt(b, k))

\* str.lower() of one character.
LowerChar(c) == IF CharIn(c, UPPER) THEN CharAt(LOWER, IndexIn(c, UPPER)) ELSE c

\* str.lower() of the characters lo..hi of s (halving keeps the nesting shallow).
RECURSIVE LowerOf(_, _, _)
LowerOf(s, lo, hi) ==
    IF lo > hi THEN ""
    ELSE IF lo = hi THEN LowerChar(CharAt(s, lo))
    ELSE LET mid == (lo + hi) \div 2
         IN  LowerOf(s, lo, mid) \o LowerOf(s, mid + 1, hi)

\* str.lower()
Lower(s) == LowerOf(s, 1, Len(s))

\* \s of the re module, and str.isspace() as str.strip()/str.split() use it.
IsSpace(c) == c \in {" ", "\t", "\n", "\r"}

\* \w of the re module: letters, digits and the underscore.
IsWordChar(c) == CharIn(c, UPPER) \/ CharIn(c, LOWER) \/ CharIn(c, DIGITS) \/ c = "_"

\* str.strip()
Strip(s) ==
    LET solid == {i \in 1..Len(s) : ~IsSpace(CharAt(s, i))}
        first == CHOOSE i \in solid : \A j \in solid : i <= j
        last  == CHOOSE i \in solid : \A j \in solid : j <= i
    IN  IF solid = {} THEN "" ELSE SubSeq(s, first, last)

\* str.split(): the maximal runs of non-whitespace characters, in order.
Split(s) ==
    LET starts == {i \in 1..Len(s) :
                      ~IsSpace(CharAt(s, i)) /\ (i = 1 \/ IsSpace(CharAt(s, i-1)))}
        ends   == {i \in 1..Len(s) :
                      ~IsSpace(CharAt(s, i)) /\ (i = Len(s) \/ IsSpace(CharAt(s, i+1)))}
    IN  [k \in 1..Cardinality(starts) |->
            LET b == CHOOSE i \in starts : Cardinality({j \in starts : j < i}) = k - 1
                e == CHOOSE i \in ends : i >= b /\ \A j \in ends : j >= b => i <= j
            IN  SubSeq(s, b, e)]

\* " ".join(tokens[i : i + size]) for a 0-based start i.
JoinWindow(tokens, i, size) ==
    LET F[k \in 1..size] ==
            IF k = 1 THEN tokens[i + 1] ELSE F[k-1] \o " " \o tokens[i + k]
    IN  F[size]

\* sorted(S) for a set of str.
RECURSIVE Sorted(_)
Sorted(S) ==
    IF S = {} THEN <<>>
    ELSE LET least == CHOOSE x \in S : \A y \in S \ {x} : StrLess(x, y)
         IN  <<least>> \o Sorted(S \ {least})

Range(seq) == {seq[i] : i \in 1..Len(seq)}

(***************************************************************************)
(* extractor.py: SkillExtractor                                            *)
(***************************************************************************)

\* SkillExtractor._normalize
_normalize(skill) ==
    LET s == Strip(Lower(skill))
    IN  IF s \in DOMAIN SKILL_ALIASES THEN SKILL_ALIASES[s] ELSE s

\* A lookup whose default is a category of its own.
get_category_unknown(skill) ==
    LET n == _normalize(skill)
    IN  IF n \in DOMAIN _SKILL_TO_CATEGORY THEN _SKILL_TO_CATEGORY[n] ELSE "unknown"

\* SkillExtractor.get_category
get_category(skill) ==
    LET n == _normalize(skill)
    IN  IF n \in DOMAIN _SKILL_TO_CATEGORY THEN _SKILL_TO_CATEGORY[n] ELSE "tool"

\* re.sub(r"[^\w\s\.#\+\-/]", " ", s): every other character becomes a space.
KEPT_PUNCTUATION == {".", "#", "+", "-", "/"}

SubChar(c) ==
    IF IsWordChar(c) \/ IsSpace(c) \/ c \in KEPT_PUNCTUATION THEN c ELSE " "

RECURSIVE SubNonSkillCharsOf(_, _, _)
SubNonSkillCharsOf(s, lo, hi) ==
    IF lo > hi THEN ""
    ELSE IF lo = hi THEN SubChar(CharAt(s, lo))
    ELSE LET mid == (lo + hi) \div 2
         IN  SubNonSkillCharsOf(s, lo, mid) \o SubNonSkillCharsOf(s, mid + 1, hi)

SubNonSkillChars(s) == SubNonSkillCharsOf(s, 1, Len(s))

\* re.sub(r"\s+", " ", s): each run of whitespace becomes one space, so a
\* whitespace character yields a space when it opens a run and nothing else.
RECURSIVE CollapseSpacesOf(_, _, _)
CollapseSpacesOf(s, lo, hi) ==
    IF lo > hi THEN ""
    ELSE IF lo = hi
    THEN IF IsSpace(CharAt(s, lo))
         THEN IF lo > 1 /\ IsSpace(CharAt(s, lo - 1)) THEN "" ELSE " "
         ELSE CharAt(s, lo)
    ELSE LET mid == (lo + hi) \div 2
         IN  CollapseSpacesOf(s, lo, mid) \o CollapseSpacesOf(s, mid + 1, hi)

CollapseSpaces(s) == CollapseSpacesOf(s, 1, Len(s))

\* The cleaned text of _keyword_match and its token list.
Clean(text) == Strip(CollapseSpaces(SubNonSkillChars(Lower(text))))

Tokenize(text) == Split(Clean(text))

\* A scan that visits the shortest windows first.
WINDOW_SIZES_ascending == <<1, 2, 3>>

\* for size in (3, 2, 1)
WINDOW_SIZES == <<3, 2, 1>>

\* The windows in the order the two nested loops visit them: [size, i],
\* i the 0-based start, for i in range(n - size + 1).
WindowOrder(n) ==
    LET Of(k) == LET size == WINDOW_SIZES[k]
                 IN  [j \in 1..(IF n - size + 1 > 0 THEN n - size + 1 ELSE 0) |->
                        [size |-> size, i |-> j - 1]]
        F[k \in 0..Len(WINDOW_SIZES)] == IF k = 0 THEN <<>> ELSE F[k-1] \o Of(k)
    IN  F[Len(WINDOW_SIZES)]

\* Whether the scan skips a window: any(j in consumed for j in range(i, i+size)).
WindowBlocked(consumed, i, size) == \E j \in i..(i + size - 1) : j \in consumed

\* One iteration of the inner loop.  matches records, in order, the windows
\* that matched (what found.add / consumed.update were called with).
ScanStep(tokens, st, w) ==
    IF WindowBlocked(st.consumed, w.i, w.size) THEN st
    ELSE LET norm == _normalize(JoinWindow(tokens, w.i, w.size))
         IN  IF norm \in DOMAIN _SKILL_TO_CATEGORY
             THEN [found    |-> st.found \cup {norm},
                   consumed |-> st.consumed \cup (w.i..(w.i + w.size - 1)),
                   matches  |-> Append(st.matches,
                                       [i |-> w.i, size |-> w.size, skill |-> norm])]
             ELSE st

\* The loops of _keyword_match from the k-th window on, st the state so far.
RECURSIVE ScanFrom(_, _, _, _)
ScanFrom(tokens, ws, k, st) ==
    IF k > Len(ws) THEN st
    ELSE ScanFrom(tokens, ws, k + 1, ScanStep(tokens, st, ws[k]))

\* The whole scan of _keyword_match over a token list.
Scan(tokens) ==
    ScanFrom(tokens, WindowOrder(Len(tokens)), 1,
             [found |-> {}, consumed |-> {}, matches |-> <<>>])

\* SkillExtractor._keyword_match: the set found.
_keyword_match(text) == Scan(Tokenize(text)).found

\* The buckets of extract(): each category that received a skill, with its
\* skills de-duplicated and sorted.
Categorise(found) ==
    [cat \in {get_category(s) : s \in found} |->
        Sorted({s \in found : get_category(s) = cat})]

\* A flattening that chains the buckets in category order without the final
\* sort.
RECURSIVE ChainBuckets(_, _)
ChainBuckets(categorised, cats) ==
    IF cats = <<>> THEN <<>>
    ELSE (IF Head(cats) \in DOMAIN categorised THEN categorised[Head(cats)] ELSE <<>>)
         \o ChainBuckets(categorised, Tail(cats))

Flatten_unsorted(categorised) == ChainBuckets(categorised, CATEGORIES)

\* extract_flat(): the union of the buckets, sorted.
Flatten(categorised) ==
    Sorted(UNION {Range(categorised[cat]) : cat \in DOMAIN categorised})

\* text[:50_000]
SPACY_CHAR_CAP == 50000

Prefix(text, n) == IF Len(text) <= n THEN text ELSE SubSeq(text, 1, n)

(***************************************************************************)
(* The environment of _load_spacy and _enrich_with_spacy.  spaCy is not    *)
(* part of the repository; what the extractor observes of it is            *)
(*   - whether "import spacy" succeeds and whether en_core_web_sm loads,   *)
(*   - the noun chunks (chunk.text, chunk.root.text) of a text.            *)
(* A blank pipeline has no parser: iterating doc.noun_chunks of a doc that *)
(* has tokens raises ValueError (spaCy error E029).                        *)
(***************************************************************************)
SPACY_ENVS == {"absent", "no_model", "installed"}

\* Stand-ins for the trained model's chunker; each is a fixed function of
\* the text.  "none" finds no chunk; "words" makes every word of the raw
\* text, freed of the punctuation around it, a chunk that is its own root;
\* "phrase" makes the stripped text one chunk headed by its last word.
RECOGNIZERS == {"none", "words", "phrase"}

\* A raw word without the non-word characters before and after it.
Bare(word) ==
    LET solid == {i \in 1..Len(word) : IsWordChar(CharAt(word, i))}
        first == CHOOSE i \in solid : \A j \in solid : i <= j
        last  == CHOOSE i \in solid : \A j \in solid : j <= i
    IN  IF solid = {} THEN "" ELSE SubSeq(word, first, last)

NounChunks(rec, text) ==
    LET words == Split(text)
        bare  == {Bare(words[i]) : i \in 1..Len(words)} \ {""}
    IN  IF rec = "words" THEN {[text |-> w, root |-> w] : w \in bare}
        ELSE IF rec = "phrase" /\ Len(words) > 0
        THEN {[text |-> Strip(text), root |-> Bare(words[Len(words)])]}
        ELSE {}

\* The skill one noun chunk contributes: the first of (chunk text, head
\* word) whose alias-normalized form is in the taxonomy; {} when neither is.
ChunkSkill(chunk) ==
    LET candidate == Strip(Lower(chunk.text))
        head      == Lower(chunk.root)
        Norm(p)   == IF p \in DOMAIN SKILL_ALIASES THEN SKILL_ALIASES[p] ELSE p
    IN  IF Norm(candidate) \in DOMAIN _SKILL_TO_CATEGORY THEN {Norm(candidate)}
        ELSE IF Norm(head) \in DOMAIN _SKILL_TO_CATEGORY THEN {Norm(head)}
        ELSE {}

\* SkillExtractor._enrich_with_spacy over the chunks of the capped text.
_enrich_with_spacy(chunks, existing) ==
    existing \cup UNION {ChunkSkill(c) : c \in chunks}

\* What the body of _load_spacy assigns to cls._NLP when it is still None.
LoadedPipeline(env) ==
    IF env = "absent" THEN "False"
    ELSE IF env = "no_model" THEN "blank"
    ELSE "en_core_web_sm"

\* SkillExtractor._load_spacy: the class attribute afterwards.
_load_spacy(nlpAttr, env) == IF nlpAttr # "None" THEN nlpAttr ELSE LoadedPipeline(env)

\* A loader that answers with the attribute as it stood before loading, so
\* the call that initialises the recognizer runs without it.
NlpReturned_before_load(nlpAttr, env) ==
    IF nlpAttr = "False" THEN "None" ELSE nlpAttr

\* The value _load_spacy returns when the class attribute is nlpAttr at the
\* call: "return cls._NLP if cls._NLP else None" after the guarded load.
NlpReturned(nlpAttr, env) ==
    LET attr == _load_spacy(nlpAttr, env)
    IN  IF attr = "False" THEN "None" ELSE attr

\* SkillExtractor.extract followed by extract_flat's flattening, as one call
\* on the class state nlpAttr.  raised names the exception that escapes.
ExtractCall(text, nlpAttr, env, rec) ==
    LET scan   == Scan(Tokenize(text))
        attr   == _load_spacy(nlpAttr, env)
        nlp    == NlpReturned(nlpAttr, env)
        doc    == Prefix(text, SPACY_CHAR_CAP)
        raises == nlp = "blank" /\ doc # ""
        found  == IF nlp = "en_core_web_sm"
                  THEN _enrich_with_spacy(NounChunks(rec, doc), scan.found)
                  ELSE scan.found
        cats   == IF raises THEN <<>> ELSE Categorise(found)
    IN  [text        |-> text,
         scan        |-> scan,
         nlp         |-> attr,
         raised      |-> IF raises THEN "ValueError" ELSE "none",
         categorised |-> cats,
         flat        |-> IF raises THEN <<>> ELSE Flatten(cats)]

(***************************************************************************)
(* matcher.py: the resource catalog                                        *)
(***************************************************************************)

\* The en dash (U+2013) of the titles and of the timeline labels, written as
\* a hyphen: the module is ASCII.
EN_DASH == "-"

SKILL_RESOURCES ==
       "python" :> <<
        [title |-> "Python Official Tutorial",
         url |-> "https://docs.python.org/3/tutorial/",
         type |-> "docs", duration |-> "8h"],
        [title |-> "CS50P - Harvard Python",
         url |-> "https://cs50.harvard.edu/python/",
         type |-> "course", duration |-> "20h"],
        [title |-> "Real Python - Beginner Guides",
         url |-> "https://realpython.com/start-here/",
         type |-> "article", duration |-> "5h"]
       >>
    @@ "javascript" :> <<
        [title |-> "javascript.info - Modern JS",
         url |-> "https://javascript.info/",
         type |-> "docs", duration |-> "20h"],
        [title |-> "freeCodeCamp JS Algorithms",
         url |-> "https://www.freecodecamp.org/learn/javascript-algorithms-and-data-structures/",
         type |-> "course", duration |-> "30h"]
       >>
    @@ "typescript" :> <<
        [title |-> "TypeScript Handbook",
         url |-> "https://www.typescriptlang.org/docs/handbook/",
         type |-> "docs", duration |-> "8h"],
        [title |-> "Matt Pocock - Total TypeScript (free)",
         url |-> "https://www.totaltypescript.com/tutorials",
         type |-> "course", duration |-> "6h"]
       >>
    @@ "java" :> <<
        [title |-> "Oracle Java Tutorials",
         url |-> "https://docs.oracle.com/javase/tutorial/",
         type |-> "docs", duration |-> "15h"],
        [title |-> "Codecademy Learn Java",
         url |-> "https://www.codecademy.com/learn/learn-java",
         type |-> "course", duration |-> "12h"]
       >>
    @@ "go" :> <<
        [title |-> "Tour of Go",
         url |-> "https://go.dev/tour/",
         type |-> "docs", duration |-> "5h"],
        [title |-> "Go by Example",
         url |-> "https://gobyexample.com/",
         type |-> "article", duration |-> "6h"]
       >>
    @@ "rust" :> <<
        [title |-> "The Rust Book",
         url |-> "https://doc.rust-lang.org/book/",
         type |-> "docs", duration |-> "20h"],
        [title |-> "Rustlings Exercises",
         url |-> "https://github.com/rust-lang/rustlings",
         type |-> "project", duration |-> "8h"]
       >>
    @@ "c++" :> <<
        [title |-> "learncpp.com",
         url |-> "https://www.learncpp.com/",
         type |-> "article", duration |-> "20h"],
        [title |-> "cppreference.com",
         url |-> "https://en.cppreference.com/",
         type |-> "docs", duration |-> "5h"]
       >>
    @@ "c#" :> <<
        [title |-> "Microsoft C# Docs",
         url |-> "https://learn.microsoft.com/en-us/dotnet/csharp/",
         type |-> "docs", duration |-> "10h"],
        [title |-> "C# Fundamentals - freeCodeCamp YT",
         url |-> "https://www.youtube.com/watch?v=GhQdlIFylQ8",
         type |-> "video", duration |-> "4h"]
       >>
    @@ "swift" :> <<
        [title |-> "Swift.org - A Swift Tour",
         url |-> "https://docs.swift.org/swift-book/documentation/the-swift-programming-language/guidedtour/",
         type |-> "docs", duration |-> "6h"],
        [title |-> "Hacking with Swift",
         url |-> "https://www.hackingwithswift.com/",
         type |-> "article", duration |-> "15h"]
       >>
    @@ "kotlin" :> <<
        [title |-> "Kotlin Koans",
         url |-> "https://kotlinlang.org/docs/koans.html",
         type |-> "project", duration |-> "5h"],
        [title |-> "Kotlin Docs",
         url |-> "https://kotlinlang.org/docs/home.html",
         type |-> "docs", duration |-> "8h"]
       >>
    @@ "react" :> <<
        [title |-> "React Official Docs (beta)",
         url |-> "https://react.dev/learn",
         type |-> "docs", duration |-> "10h"],
        [title |-> "Full Modern React - Scrimba",
         url |-> "https://scrimba.com/learn/learnreact",
         type |-> "course", duration |-> "12h"]
       >>
    @@ "vue" :> <<
        [title |-> "Vue 3 Official Guide",
         url |-> "https://vuejs.org/guide/introduction.html",
         type |-> "docs", duration |-> "8h"],
        [title |-> "Vue Mastery - Intro to Vue",
         url |-> "https://www.vuemastery.com/courses/intro-to-vue-3/",
         type |-> "course", duration |-> "4h"]
       >>
    @@ "angular" :> <<
        [title |-> "Angular Official Docs",
         url |-> "https://angular.dev/overview",
         type |-> "docs", duration |-> "12h"],
        [title |-> "Angular Crash Course - Traversy Media",
         url |-> "https://www.youtube.com/watch?v=3dHNOWTI7H8",
         type |-> "video", duration |-> "2h"]
       >>
    @@ "fastapi" :> <<
        [title |-> "FastAPI Official Tutorial",
         url |-> "https://fastapi.tiangolo.com/tutorial/",
         type |-> "docs", duration |-> "6h"],
        [title |-> "FastAPI Crash Course - YT",
         url |-> "https://www.youtube.com/watch?v=7t2alSnE2-I",
         type |-> "video", duration |-> "1h"]
       >>
    @@ "django" :> <<
        [title |-> "Django Official Tutorial",
         url |-> "https://docs.djangoproject.com/en/5.0/intro/tutorial01/",
         type |-> "docs", duration |-> "8h"],
        [title |-> "Django for Beginners - freeCodeCamp",
         url |-> "https://www.youtube.com/watch?v=F5mRW0jo-U4",
         type |-> "video", duration |-> "4h"]
       >>
    @@ "flask" :> <<
        [title |-> "Flask Mega-Tutorial",
         url |-> "https://blog.miguelgrinberg.com/post/the-flask-mega-tutorial-part-i-hello-world",
         type |-> "article", duration |-> "10h"],
        [title |-> "Flask Quickstart",
         url |-> "https://flask.palletsprojects.com/en/3.0.x/quickstart/",
         type |-> "docs", duration |-> "2h"]
       >>
    @@ "spring boot" :> <<
        [title |-> "Spring Boot - Official Guides",
         url |-> "https://spring.io/guides",
         type |-> "docs", duration |-> "8h"],
        [title |-> "Spring Boot Tutorial - Amigoscode",
         url |-> "https://www.youtube.com/watch?v=9SGDpanrc8U",
         type |-> "video", duration |-> "3h"]
       >>
    @@ "pytorch" :> <<
        [title |-> "PyTorch Official Tutorials",
         url |-> "https://pytorch.org/tutorials/",
         type |-> "docs", duration |-> "10h"],
        [title |-> "Deep Learning with PyTorch - freeCodeCamp",
         url |-> "https://www.youtube.com/watch?v=GIsg-ZUy0MY",
         type |-> "video", duration |-> "10h"]
       >>
    @@ "tensorflow" :> <<
        [title |-> "TensorFlow Tutorials",
         url |-> "https://www.tensorflow.org/tutorials",
         type |-> "docs", duration |-> "10h"],
        [title |-> "TF for Beginners - Google Dev",
         url |-> "https://developers.google.com/machine-learning/crash-course",
         type |-> "course", duration |-> "15h"]
       >>
    @@ "scikit-learn" :> <<
        [title |-> "Scikit-learn User Guide",
         url |-> "https://scikit-learn.org/stable/user_guide.html",
         type |-> "docs", duration |-> "8h"],
        [title |-> "ML with Scikit-Learn - YT",
         url |-> "https://www.youtube.com/watch?v=0B5eIE_1vpU",
         type |-> "video", duration |-> "6h"]
       >>
    @@ "unity" :> <<
        [title |-> "Unity Learn - Official Courses",
         url |-> "https://learn.unity.com/",
         type |-> "course", duration |-> "20h"],
        [title |-> "Unity Beginner to Pro - Brackeys YT",
         url |-> "https://www.youtube.com/c/Brackeys",
         type |-> "video", duration |-> "10h"]
       >>
    @@ "unreal engine" :> <<
        [title |-> "Unreal Online Learning",
         url |-> "https://dev.epicgames.com/community/unreal-engine/getting-started/games",
         type |-> "course", duration |-> "20h"],
        [title |-> "UE5 Beginners Series - YT",
         url |-> "https://www.youtube.com/watch?v=k-zMkzmduqI",
         type |-> "video", duration |-> "4h"]
       >>
    @@ "docker" :> <<
        [title |-> "Docker Official Get Started",
         url |-> "https://docs.docker.com/get-started/",
         type |-> "docs", duration |-> "4h"],
        [title |-> "Docker Tutorial - TechWorld with Nana",
         url |-> "https://www.youtube.com/watch?v=3c-iBn73dDE",
         type |-> "video", duration |-> "4h"]
       >>
    @@ "kubernetes" :> <<
        [title |-> "Kubernetes Official Basics",
         url |-> "https://kubernetes.io/docs/tutorials/kubernetes-basics/",
         type |-> "docs", duration |-> "6h"],
        [title |-> "Kubernetes Course - TechWorld with Nana",
         url |-> "https://www.youtube.com/watch?v=X48VuDVv0do",
         type |-> "video", duration |-> "4h"]
       >>
    @@ "git" :> <<
        [title |-> "Pro Git Book (free)",
         url |-> "https://git-scm.com/book/en/v2",
         type |-> "docs", duration |-> "5h"],
        [title |-> "Git & GitHub Crash Course - Traversy",
         url |-> "https://www.youtube.com/watch?v=SWYqp7iY_Tc",
         type |-> "video", duration |-> "1h"]
       >>
    @@ "jenkins" :> <<
        [title |-> "Jenkins Official Docs",
         url |-> "https://www.jenkins.io/doc/",
         type |-> "docs", duration |-> "5h"],
        [title |-> "Jenkins CI/CD - TechWorld with Nana",
         url |-> "https://www.youtube.com/watch?v=6YZvp2GwT0A",
         type |-> "video", duration |-> "2h"]
       >>
    @@ "gitlab" :> <<
        [title |-> "GitLab CI/CD Docs",
         url |-> "https://docs.gitlab.com/ee/ci/",
         type |-> "docs", duration |-> "4h"],
        [title |-> "GitLab CI Tutorial - YT",
         url |-> "https://www.youtube.com/watch?v=qP8kir2GUgo",
         type |-> "video", duration |-> "1h"]
       >>
    @@ "terraform" :> <<
        [title |-> "HashiCorp Learn - Terraform",
         url |-> "https://developer.hashicorp.com/terraform/tutorials",
         type |-> "course", duration |-> "6h"],
        [title |-> "Terraform Crash Course - FCC YT",
         url |-> "https://www.youtube.com/watch?v=SLB_c_ayRMo",
         type |-> "video", duration |-> "2h"]
       >>
    @@ "ansible" :> <<
        [title |-> "Ansible Docs - Getting Started",
         url |-> "https://docs.ansible.com/ansible/latest/getting_started/index.html",
         type |-> "docs", duration |-> "4h"],
        [title |-> "Ansible Full Course - TechWorld Nana",
         url |-> "https://www.youtube.com/watch?v=1id6ERvfozo",
         type |-> "video", duration |-> "2h"]
       >>
    @@ "linux" :> <<
        [title |-> "Linux Journey",
         url |-> "https://linuxjourney.com/",
         type |-> "course", duration |-> "8h"],
        [title |-> "The Linux Command Line (free book)",
         url |-> "https://linuxcommand.org/tlcl.php",
         type |-> "docs", duration |-> "10h"]
       >>
    @@ "bash" :> <<
        [title |-> "Bash Scripting Tutorial",
         url |-> "https://www.shellscript.sh/",
         type |-> "article", duration |-> "4h"],
        [title |-> "Bash Scripting - freeCodeCamp",
         url |-> "https://www.youtube.com/watch?v=e7BufAVwDiM",
         type |-> "video", duration |-> "3h"]
       >>
    @@ "postgresql" :> <<
        [title |-> "PostgreSQL Official Tutorial",
         url |-> "https://www.postgresql.org/docs/current/tutorial.html",
         type |-> "docs", duration |-> "6h"],
        [title |-> "PostgreSQL Tutorial",
         url |-> "https://www.postgresqltutorial.com/",
         type |-> "article", duration |-> "5h"]
       >>
    @@ "mysql" :> <<
        [title |-> "MySQL 8 Reference Manual",
         url |-> "https://dev.mysql.com/doc/refman/8.0/en/",
         type |-> "docs", duration |-> "5h"],
        [title |-> "MySQL Crash Course - Traversy YT",
         url |-> "https://www.youtube.com/watch?v=9ylj9NR0Lcg",
         type |-> "video", duration |-> "1h"]
       >>
    @@ "mongodb" :> <<
        [title |-> "MongoDB University (free)",
         url |-> "https://learn.mongodb.com/",
         type |-> "course", duration |-> "8h"],
        [title |-> "MongoDB Crash Course - Traversy",
         url |-> "https://www.youtube.com/watch?v=-56x56UppqQ",
         type |-> "video", duration |-> "1h"]
       >>
    @@ "redis" :> <<
        [title |-> "Redis University (free)",
         url |-> "https://university.redis.com/",
         type |-> "course", duration |-> "4h"],
        [title |-> "Redis Crash Course - Traversy",
         url |-> "https://www.youtube.com/watch?v=jgpVdJB2sKQ",
         type |-> "video", duration |-> "1h"]
       >>
    @@ "sql" :> <<
        [title |-> "SQLZoo",
         url |-> "https://sqlzoo.net/",
         type |-> "course", duration |-> "5h"],
        [title |-> "Mode SQL Tutorial",
         url |-> "https://mode.com/sql-tutorial/",
         type |-> "article", duration |-> "3h"]
       >>
    @@ "aws" :> <<
        [title |-> "AWS Skill Builder (free tier)",
         url |-> "https://skillbuilder.aws/",
         type |-> "course", duration |-> "10h"],
        [title |-> "AWS Cloud Practitioner Essentials",
         url |-> "https://explore.skillbuilder.aws/learn/course/134/aws-cloud-practitioner-essentials",
         type |-> "course", duration |-> "6h"]
       >>
    @@ "gcp" :> <<
        [title |-> "Google Cloud Skills Boost (free)",
         url |-> "https://www.cloudskillsboost.google/",
         type |-> "course", duration |-> "10h"],
        [title |-> "GCP Fundamentals - Coursera (audit)",
         url |-> "https://www.coursera.org/learn/gcp-fundamentals",
         type |-> "course", duration |-> "8h"]
       >>
    @@ "azure" :> <<
        [title |-> "Microsoft Learn - Azure",
         url |-> "https://learn.microsoft.com/en-us/training/azure/",
         type |-> "course", duration |-> "10h"],
        [title |-> "AZ-900 Study Guide",
         url |-> "https://learn.microsoft.com/en-us/credentials/certifications/azure-fundamentals/",
         type |-> "docs", duration |-> "5h"]
       >>
    @@ "helm" :> <<
        [title |-> "Helm Docs",
         url |-> "https://helm.sh/docs/",
         type |-> "docs", duration |-> "3h"],
        [title |-> "Helm Tutorial - TechWorld Nana YT",
         url |-> "https://www.youtube.com/watch?v=-ykwb1d0DXU",
         type |-> "video", duration |-> "1h"]
       >>
    @@ "prometheus" :> <<
        [title |-> "Prometheus Docs",
         url |-> "https://prometheus.io/docs/introduction/overview/",
         type |-> "docs", duration |-> "3h"],
        [title |-> "Prometheus & Grafana Tutorial - YT",
         url |-> "https://www.youtube.com/watch?v=h4Sl21AKiDg",
         type |-> "video", duration |-> "2h"]
       >>
    @@ "grafana" :> <<
        [title |-> "Grafana Tutorials",
         url |-> "https://grafana.com/tutorials/",
         type |-> "course", duration |-> "3h"],
        [title |-> "Grafana Full Course - YT",
         url |-> "https://www.youtube.com/watch?v=CjABEnRvl0Y",
         type |-> "video", duration |-> "2h"]
       >>
    @@ "hibernate" :> <<
        [title |-> "Hibernate ORM Docs",
         url |-> "https://hibernate.org/orm/documentation/",
         type |-> "docs", duration |-> "5h"],
        [title |-> "Hibernate Tutorial - Telusko YT",
         url |-> "https://www.youtube.com/watch?v=JR7-EdxDSf0",
         type |-> "video", duration |-> "3h"]
       >>
    @@ "spring" :> <<
        [title |-> "Spring Framework Docs",
         url |-> "https://spring.io/projects/spring-framework#learn",
         type |-> "docs", duration |-> "8h"],
        [title |-> "Spring Boot Full Course - FCC YT",
         url |-> "https://www.youtube.com/watch?v=9SGDpanrc8U",
         type |-> "video", duration |-> "3h"]
       >>
    @@ "pandas" :> <<
        [title |-> "10 minutes to pandas",
         url |-> "https://pandas.pydata.org/docs/user_guide/10min.html",
         type |-> "docs", duration |-> "2h"],
        [title |-> "Pandas Tutorial - Corey Schafer YT",
         url |-> "https://www.youtube.com/playlist?list=PL-osiE80TeTsWmV9i9c58mdDCSskIFdDS",
         type |-> "video", duration |-> "6h"]
       >>
    @@ "numpy" :> <<
        [title |-> "NumPy Official Tutorial",
         url |-> "https://numpy.org/doc/stable/user/absolute_beginners.html",
         type |-> "docs", duration |-> "3h"],
        [title |-> "NumPy Full Course - FCC YT",
         url |-> "https://www.youtube.com/watch?v=QUT1VHiLmmI",
         type |-> "video", duration |-> "1h"]
       >>
    @@ "tailwind" :> <<
        [title |-> "Tailwind CSS Official Docs",
         url |-> "https://tailwindcss.com/docs",
         type |-> "docs", duration |-> "3h"],
        [title |-> "Tailwind CSS Crash Course - Traversy",
         url |-> "https://www.youtube.com/watch?v=dFgzHOX84xQ",
         type |-> "video", duration |-> "1h"]
       >>

\* str.replace(" ", "+")
RECURSIVE PlusForSpaceOf(_, _, _)
PlusForSpaceOf(s, lo, hi) ==
    IF lo > hi THEN ""
    ELSE IF lo = hi THEN (IF CharAt(s, lo) = " " THEN "+" ELSE CharAt(s, lo))
    ELSE LET mid == (lo + hi) \div 2
         IN  PlusForSpaceOf(s, lo, mid) \o PlusForSpaceOf(s, mid + 1, hi)

PlusForSpace(s) == PlusForSpaceOf(s, 1, Len(s))

\* A lookup by the name as given, neither lowercased nor trimmed.
get_skill_resources_raw_key(skill) ==
    IF skill \in DOMAIN SKILL_RESOURCES THEN SKILL_RESOURCES[skill]
    ELSE << [title    |-> "freeCodeCamp " \o EN_DASH \o " " \o skill,
             url      |-> "https://www.freecodecamp.org/news/search/?query="
                          \o PlusForSpace(skill),
             type     |-> "article",
             duration |-> "varies"],
            [title    |-> "YouTube " \o EN_DASH \o " " \o skill \o " tutorial",
             url      |-> "https://www.youtube.com/results?search_query="
                          \o PlusForSpace(skill) \o "+tutorial+for+beginners",
             type     |-> "video",
             duration |-> "varies"] >>

\* get_skill_resources
get_skill_resources(skill) ==
    LET key == Strip(Lower(skill))
    IN  IF key \in DOMAIN SKILL_RESOURCES THEN SKILL_RESOURCES[key]
        ELSE << [title    |-> "freeCodeCamp " \o EN_DASH \o " " \o skill,
                 url      |-> "https://www.freecodecamp.org/news/search/?query="
                              \o PlusForSpace(skill),
                 type     |-> "article",
                 duration |-> "varies"],
                [title    |-> "YouTube " \o EN_DASH \o " " \o skill \o " tutorial",
                 url      |-> "https://www.youtube.com/results?search_query="
                              \o PlusForSpace(skill) \o "+tutorial+for+beginners",
                 type     |-> "video",
                 duration |-> "varies"] >>

(***************************************************************************)
(* Python numerics                                                         *)
(***************************************************************************)

Min(a, b) == IF a <= b THEN a ELSE b
Max(a, b) == IF a >= b THEN a ELSE b

\* The integer nearest to num/den (num >= 0, den > 0), a tie going to the
\* even neighbour: round() of a float that holds num/den exactly, or that
\* is nowhere near a tie.
RoundHalfEven(num, den) ==
    LET q == num \div den
        r == num % den
    IN  IF 2 * r < den THEN q
        ELSE IF 2 * r > den THEN q + 1
        ELSE IF q % 2 = 0 THEN q ELSE q + 1

\* Number of binary digits of n >= 1.
RECURSIVE BitLength(_)
BitLength(n) == IF n <= 1 THEN 1 ELSE 1 + BitLength(n \div 2)

\* Whether the double nearest to n/20 (n odd, not a multiple of 5) lies above
\* n/20.  n/20 = (n/5)/4 has the significand of n/5: with f fraction bits
\* kept out of 53, the discarded part is ((n * 2^f) mod 5)/5 of a unit, and
\* the double is rounded up exactly when that exceeds one half.
DoubleAboveTwentieth(n) ==
    LET ip == n \div 5
        r  == n % 5
        f  == IF ip >= 1 THEN 53 - BitLength(ip)
              ELSE IF r = 1 THEN 55
              ELSE IF r = 2 THEN 54
              ELSE 53
        pow == <<1, 2, 4, 3>>[(f % 4) + 1]
    IN  (n * pow) % 5 \in {3, 4}

\* round(total / hpw, 1) in tenths, for the float quotient of two ints.
\* Off a decimal tie the float is nowhere near one; on a tie k + 1/2 tenths
\* the quotient is n/20 with n = 2k + 1: exact in binary when 5 divides n
\* (then the tie goes to the even tenth), else it goes the way the double
\* nearest to n/20 lies.
RoundTenthsOfQuotient(total, hpw) ==
    LET num == 10 * total
        k   == num \div hpw
        r   == num % hpw
        n   == 2 * k + 1
    IN  IF 2 * r < hpw THEN k
        ELSE IF 2 * r > hpw THEN k + 1
        ELSE IF n % 5 = 0 THEN (IF k % 2 = 0 THEN k ELSE k + 1)
        ELSE IF DoubleAboveTwentieth(n) THEN k + 1 ELSE k

\* sum of a sequence of integers
RECURSIVE SumSeq(_)
SumSeq(seq) == IF seq = <<>> THEN 0 ELSE Head(seq) + SumSeq(Tail(seq))

\* A first phase that takes only the skills under 20 hours.
RECURSIVE Phase1Items_under(_)
Phase1Items_under(tagged) ==
    IF tagged = <<>> THEN <<>>
    ELSE IF Head(tagged).hours < 20
         THEN <<Head(tagged)>> \o Phase1Items_under(Tail(tagged))
         ELSE Phase1Items_under(Tail(tagged))

\* [(s, c, h) for s, c, h in tagged if h <= 20], order kept.
RECURSIVE Phase1Items(_)
Phase1Items(tagged) ==
    IF tagged = <<>> THEN <<>>
    ELSE IF Head(tagged).hours <= 20
         THEN <<Head(tagged)>> \o Phase1Items(Tail(tagged))
         ELSE Phase1Items(Tail(tagged))

\* A second phase that collects its skills newest first.
RECURSIVE Phase2Items_prepending(_)
Phase2Items_prepending(tagged) ==
    IF tagged = <<>> THEN <<>>
    ELSE IF Head(tagged).hours > 20
         THEN Phase2Items_prepending(Tail(tagged)) \o <<Head(tagged)>>
         ELSE Phase2Items_prepending(Tail(tagged))

\* [(s, c, h) for s, c, h in tagged if h > 20], order kept.
RECURSIVE Phase2Items(_)
Phase2Items(tagged) ==
    IF tagged = <<>> THEN <<>>
    ELSE IF Head(tagged).hours > 20
         THEN <<Head(tagged)>> \o Phase2Items(Tail(tagged))
         ELSE Phase2Items(Tail(tagged))

(***************************************************************************)
(* matcher.py: calculate_semantic_match                                    *)
(***************************************************************************)

\* The 0.70 weight, in hundredths.
MATCH_WEIGHT_X100 == 70
\* min(..., 1.5): the cap of the breadth ratio, as CAP_NUM / CAP_DEN.
BREADTH_CAP_NUM == 3
BREADTH_CAP_DEN == 2
\* breadth_ratio * 20
BREADTH_SCALE == 20
\* min(breadth_ratio * 20, 30)
BREADTH_BONUS_CAP == 30
\* min(..., 100.0)
READINESS_CAP == 100

\* {s.lower().strip() for s in skills}
SkillSetOf(skills) == {Strip(Lower(skills[i])) : i \in 1..Len(skills)}

\* A breadth bonus without either cap.
BreadthBonus_uncapped(r, j) == RoundHalfEven(r * BREADTH_SCALE * 100, Max(j, 1))

\* A breadth ratio with its operands exchanged: len(jd_set) over
\* max(len(resume_set), 1).
BreadthBonus_inverted(r, j) ==
    LET d      == Max(r, 1)
        capped == j * BREADTH_CAP_DEN >= BREADTH_CAP_NUM * d
        num    == IF capped THEN BREADTH_CAP_NUM ELSE j
        den    == IF capped THEN BREADTH_CAP_DEN ELSE d
        over   == num * BREADTH_SCALE >= BREADTH_BONUS_CAP * den
    IN  IF over THEN BREADTH_BONUS_CAP * 100
        ELSE RoundHalfEven(num * BREADTH_SCALE * 100, den)

\* breadth_bonus in hundredths.  breadth_ratio is the rational
\* min(r / max(j, 1), 3/2), kept as numerator and denominator.
BreadthBonus_x100(r, j) ==
    LET d      == Max(j, 1)
        capped == r * BREADTH_CAP_DEN >= BREADTH_CAP_NUM * d
        num    == IF capped THEN BREADTH_CAP_NUM ELSE r
        den    == IF capped THEN BREADTH_CAP_DEN ELSE d
        \* min(breadth_ratio * 20, 30)
        over   == num * BREADTH_SCALE >= BREADTH_BONUS_CAP * den
    IN  IF over THEN BREADTH_BONUS_CAP * 100
        ELSE RoundHalfEven(num * BREADTH_SCALE * 100, den)

\* A readiness that adds the bonus to the unweighted percentage, uncapped.
Readiness_unweighted(pct_x100, bonus_x100) == pct_x100 + bonus_x100

\* round(min(match_pct * 0.70 + breadth_bonus, 100.0), 2) in hundredths; the
\* sum is (70 * pct_x100 + 100 * bonus_x100) / 100 hundredths.  The rational
\* sum and the float sum round alike for every job description of up to 10
\* skills; with 11 the float product 45.45 * 0.70 falls just under a tie.
Readiness_x100(pct_x100, bonus_x100) ==
    LET sum_x10000 == MATCH_WEIGHT_X100 * pct_x100 + 100 * bonus_x100
    IN  IF sum_x10000 >= READINESS_CAP * 10000 THEN READINESS_CAP * 100
        ELSE RoundHalfEven(sum_x10000, 100)

\* A scorer that reports every skill the two lists do not share as missing.
calculate_semantic_match_symmetric(resume_skills, jd_skills) ==
    LET resume_set == SkillSetOf(resume_skills)
        jd_set     == SkillSetOf(jd_skills)
        matched    == Sorted(resume_set \cap jd_set)
        missing    == Sorted((jd_set \ resume_set) \cup (resume_set \ jd_set))
        match_pct  == RoundHalfEven(Len(matched) * 100 * 100, Cardinality(jd_set))
        bonus      == BreadthBonus_x100(Cardinality(resume_set), Cardinality(jd_set))
    IN  IF jd_set = {}
        THEN [match_percentage_x100    |-> 0,
              job_readiness_score_x100 |-> 0,
              matched_skills           |-> <<>>,
              missing_skills           |-> <<>>]
        ELSE [match_percentage_x100    |-> match_pct,
              job_readiness_score_x100 |-> Readiness_x100(match_pct, bonus),
              matched_skills           |-> matched,
              missing_skills           |-> missing]

\* A scorer without the empty-JD return: the formulas run with max(len, 1).
calculate_semantic_match_unguarded(resume_skills, jd_skills) ==
    LET resume_set == SkillSetOf(resume_skills)
        jd_set     == SkillSetOf(jd_skills)
        matched    == Sorted(resume_set \cap jd_set)
        missing    == Sorted(jd_set \ resume_set)
        match_pct  == RoundHalfEven(Len(matched) * 100 * 100, Max(Cardinality(jd_set), 1))
        bonus      == BreadthBonus_x100(Cardinality(resume_set), Cardinality(jd_set))
    IN  [match_percentage_x100    |-> match_pct,
         job_readiness_score_x100 |-> Readiness_x100(match_pct, bonus),
         matched_skills           |-> matched,
         missing_skills           |-> missing]

calculate_semantic_match(resume_skills, jd_skills) ==
    LET resume_set == SkillSetOf(resume_skills)
        jd_set     == SkillSetOf(jd_skills)
        matched    == Sorted(resume_set \cap jd_set)
        missing    == Sorted(jd_set \ resume_set)
        match_pct  == RoundHalfEven(Len(matched) * 100 * 100, Cardinality(jd_set))
        bonus      == BreadthBonus_x100(Cardinality(resume_set), Cardinality(jd_set))
    IN  IF jd_set = {}
        THEN [match_percentage_x100    |-> 0,
              job_readiness_score_x100 |-> 0,
              matched_skills           |-> <<>>,
              missing_skills           |-> <<>>]
        ELSE [match_percentage_x100    |-> match_pct,
              job_readiness_score_x100 |-> Readiness_x100(match_pct, bonus),
              matched_skills           |-> matched,
              missing_skills           |-> missing]

(***************************************************************************)
(* matcher.py: build_learning_velocity                                     *)
(***************************************************************************)

HTL_BY_CATEGORY ==
       "language"  :> 40
    @@ "framework" :> 30
    @@ "cloud"     :> 20
    @@ "database"  :> 15
    @@ "tool"      :> 10

DEFAULT_HTL == 15

\* max(round(p1_hours_used / safe_hpw) + 1, 3)
PHASE2_MIN_START == 3

\* (skill, cat, hours) for one missing skill
Tag(skill) ==
    LET cat == get_category(skill)
    IN  [name  |-> skill,
         cat   |-> cat,
         hours |-> IF cat \in DOMAIN HTL_BY_CATEGORY
                   THEN HTL_BY_CATEGORY[cat] ELSE DEFAULT_HTL]

\* _build_skill_entries
_build_skill_entries(items) ==
    [k \in 1..Len(items) |->
        [name      |-> items[k].name,
         category  |-> items[k].cat,
         hours     |-> items[k].hours,
         resources |-> get_skill_resources(items[k].name)]]

Hours(items) == SumSeq([k \in 1..Len(items) |-> items[k].hours])
Names(items) == [k \in 1..Len(items) |-> items[k].name]

\* A pace taken by magnitude instead of clamped.
safe_hpw_magnitude(hours_per_week) ==
    IF hours_per_week = 0 THEN 1
    ELSE IF hours_per_week < 0 THEN 0 - hours_per_week ELSE hours_per_week

\* safe_hpw = max(hours_per_week, 1)
safe_hpw(hours_per_week) == Max(hours_per_week, 1)

\* weeks_total truncated to the tenth below.
weeks_total_truncated(total_hours, hpw) == (10 * total_hours) \div hpw

\* weeks_total = round(total_hours / safe_hpw, 1), in tenths
weeks_total(total_hours, hpw) == RoundTenthsOfQuotient(total_hours, hpw)

\* p1_weeks = max(round(p1_hours / safe_hpw), 1)
p1_weeks(p1_hours, hpw) == Max(RoundHalfEven(p1_hours, hpw), 1)

\* A label that is "Week 1" only when the phase's hours fit the weekly pace.
Phase1Timeline_by_hours(p1_hours, hpw) ==
    IF p1_hours <= hpw THEN "Week 1"
    ELSE "Week 1" \o EN_DASH \o ToString(p1_weeks(p1_hours, hpw))

\* f"Week 1-{p1_weeks}" if p1_weeks > 1 else "Week 1"
Phase1Timeline(p1_hours, hpw) ==
    IF p1_weeks(p1_hours, hpw) > 1
    THEN "Week 1" \o EN_DASH \o ToString(p1_weeks(p1_hours, hpw))
    ELSE "Week 1"

\* A start week right after phase 1, without the floor of 3.
p2_start_week_unfloored(p1_hours_used, hpw) == RoundHalfEven(p1_hours_used, hpw) + 1

\* p2_start_week = max(round(p1_hours_used / safe_hpw) + 1, 3)
p2_start_week(p1_hours_used, hpw) ==
    Max(RoundHalfEven(p1_hours_used, hpw) + 1, PHASE2_MIN_START)

\* p2_end_week = max(round(total_hours / safe_hpw), p2_start_week + 1)
p2_end_week(total_hours, hpw, start) == Max(RoundHalfEven(total_hours, hpw), start + 1)

build_learning_velocity(missing_skills, hours_per_week) ==
    LET tagged       == [k \in 1..Len(missing_skills) |-> Tag(missing_skills[k])]
        phase1_items == Phase1Items(tagged)
        phase2_items == Phase2Items(tagged)
        total_hours  == Hours(tagged)
        hpw          == safe_hpw(hours_per_week)
        p1_hours     == Hours(phase1_items)
        p2_start     == p2_start_week(p1_hours, hpw)
        p2_end       == p2_end_week(total_hours, hpw, p2_start)
        phase1       == [phase           |-> "Immediate Gaps",
                         skills          |-> Names(phase1_items),
                         skill_details   |-> _build_skill_entries(phase1_items),
                         estimated_hours |-> p1_hours,
                         timeline        |-> Phase1Timeline(p1_hours, hpw)]
        phase2       == [phase           |-> "Advanced Mastery",
                         skills          |-> Names(phase2_items),
                         skill_details   |-> _build_skill_entries(phase2_items),
                         estimated_hours |-> Hours(phase2_items),
                         timeline        |-> "Week " \o ToString(p2_start) \o EN_DASH
                                             \o ToString(p2_end)]
    IN  IF missing_skills = <<>>
        THEN [total_estimated_hours  |-> 0,
              weeks_to_readiness_x10 |-> 0,
              roadmap                |-> <<>>]
        ELSE [total_estimated_hours  |-> total_hours,
              weeks_to_readiness_x10 |-> weeks_total(total_hours, hpw),
              roadmap                |->
                  (IF phase1_items # <<>> THEN <<phase1>> ELSE <<>>)
                  \o (IF phase2_items # <<>> THEN <<phase2>> ELSE <<>>)]

(***************************************************************************)
(* Objects and in-place writes.  The tables are module-level dicts, sets   *)
(* and lists: Python lets any holder of such an object write to it, and a  *)
(* function that returns one hands out the object itself, not a copy.  A   *)
(* write names the object it goes to: a table, a member of a table, or an  *)
(* object the call created.  The functions above read the tables as the    *)
(* literals of the source, which is what the tables hold while no write    *)
(* reaches them.                                                           *)
(***************************************************************************)

\* The five tables as the import of extractor.py and matcher.py leaves them.
STATIC_TABLES ==
    [SKILLS_TAXONOMY    |-> SKILLS_TAXONOMY,
     SKILL_ALIASES      |-> SKILL_ALIASES,
     _SKILL_TO_CATEGORY |-> _SKILL_TO_CATEGORY,
     HTL_BY_CATEGORY    |-> HTL_BY_CATEGORY,
     SKILL_RESOURCES    |-> SKILL_RESOURCES]

\* An object created inside the call that writes to it.
Local(name) == <<"local", name>>

\* The list get_skill_resources returns: "return SKILL_RESOURCES[key]" is the
\* catalog's own list; the fallback is a list literal built by the call.
ResourcesObject(skill) ==
    LET key == Strip(Lower(skill))
    IN  IF key \in DOMAIN SKILL_RESOURCES THEN <<"SKILL_RESOURCES", key>>
        ELSE Local("fallback")

Write(object, op, value) == [object |-> object, op |-> op, value |-> value]

\* What one write leaves of the tables.  list.append, set.add, set.update
\* and dict item assignment change the object; list.sort is only ever
\* called on lists of str, which no table holds.
ApplyWrite(t, w) ==
    IF w.object[1] = "local" THEN t
    ELSE IF Len(w.object) = 1 /\ w.op = "setitem"
    THEN [t EXCEPT ![w.object[1]] = (w.value[1] :> w.value[2]) @@ @]
    ELSE IF Len(w.object) = 2 /\ w.op = "append"
    THEN [t EXCEPT ![w.object[1]][w.object[2]] = Append(@, w.value)]
    ELSE IF Len(w.object) = 2 /\ w.op = "add"
    THEN [t EXCEPT ![w.object[1]][w.object[2]] = @ \cup {w.value}]
    ELSE IF Len(w.object) = 2 /\ w.op = "update"
    THEN [t EXCEPT ![w.object[1]][w.object[2]] = @ \cup w.value]
    ELSE t

RECURSIVE ApplyWrites(_, _)
ApplyWrites(t, writes) ==
    IF writes = <<>> THEN t
    ELSE ApplyWrites(ApplyWrite(t, Head(writes)), Tail(writes))

\* The writes of extract, c the record of the call: found.add and
\* consumed.update in _keyword_match (found and consumed are created
\* there), existing.add in _enrich_with_spacy (existing is the set found
\* that extract passes in), bucket.append and categorised[cat].sort() in
\* extract (each bucket is the [] that setdefault was given).
extract_writes(c) ==
    LET matches  == c.scan.matches
        enriched == Sorted(Range(c.flat) \ c.scan.found)
        cats     == Sorted(DOMAIN c.categorised)
    IN  [k \in 1..Len(matches) |-> Write(Local("found"), "add", matches[k].skill)]
        \o [k \in 1..Len(matches) |->
               Write(Local("consumed"), "update",
                     matches[k].i..(matches[k].i + matches[k].size - 1))]
        \o [k \in 1..Len(enriched) |-> Write(Local("found"), "add", enriched[k])]
        \o [k \in 1..Len(c.flat) |-> Write(Local("bucket"), "append", c.flat[k])]
        \o [k \in 1..Len(cats) |-> Write(Local("bucket"), "sort", cats[k])]

\* extract_flat: the writes of extract, then all_skills.update on the set it
\* creates, once per bucket.
extract_flat_writes(c) ==
    LET cats == Sorted(DOMAIN c.categorised)
    IN  extract_writes(c)
        \o [k \in 1..Len(cats) |->
               Write(Local("all_skills"), "update", Range(c.categorised[cats[k]]))]

\* calculate_semantic_match builds its sets and lists with comprehensions
\* and sorted(): it writes to no object in place.
calculate_semantic_match_writes(resume_skills, jd_skills) == <<>>

\* Entries that get one more search link each, added to the list that
\* get_skill_resources returned.
_build_skill_entries_writes_extending(items) ==
    [k \in 1..Len(items) |->
        Write(ResourcesObject(items[k].name), "append",
              [title    |-> "Search " \o EN_DASH \o " " \o items[k].name,
               url      |-> "https://www.google.com/search?q=" \o PlusForSpace(items[k].name),
               type     |-> "article",
               duration |-> "varies"])]

\* _build_skill_entries: entries.append on the list it creates.  The list
\* of get_skill_resources is stored under "resources" and not written to.
_build_skill_entries_writes(items) ==
    [k \in 1..Len(items) |-> Write(Local("entries"), "append", items[k].name)]

\* build_learning_velocity: tagged.append, the entries of each phase that is
\* not empty, and roadmap.append.
build_learning_velocity_writes(missing_skills) ==
    LET tagged       == [k \in 1..Len(missing_skills) |-> Tag(missing_skills[k])]
        phase1_items == Phase1Items(tagged)
        phase2_items == Phase2Items(tagged)
    IN  [k \in 1..Len(tagged) |-> Write(Local("tagged"), "append", tagged[k])]
        \o (IF phase1_items # <<>>
            THEN _build_skill_entries_writes(phase1_items)
                 \o <<Write(Local("roadmap"), "append", "Immediate Gaps")>>
            ELSE <<>>)
        \o (IF phase2_items # <<>>
            THEN _build_skill_entries_writes(phase2_items)
                 \o <<Write(Local("roadmap"), "append", "Advanced Mastery")>>
            ELSE <<>>)

\* save_gap_analysis: data is a new dict, {**payload, "analyzed_at": ...},
\* a shallow copy whose nested lists are those of the payload; doc_ref.set
\* reads it.  Nothing is written to in place.
save_gap_analysis_writes(payload) == <<>>

(***************************************************************************)
(* State                                                                   *)
(***************************************************************************)
VARIABLES
    spacy,             \* the environment: which of SPACY_ENVS the process runs in
    recognizer,        \* the environment: the chunker of the installed model
    _NLP,              \* SkillExtractor._NLP: "None", "False" or a pipeline
    call,              \* the last call made on the public functions, with its result
    pc,                \* analyze_skill_gap: where the request in progress stands
    req,               \* analyze_skill_gap: the inputs of the request in progress
    resume_text,       \* analyze_skill_gap: the parsed resume
    resume_skills,     \* analyze_skill_gap: extract_flat(resume_text)
    jd_skills,         \* analyze_skill_gap: extract_flat(jd_text)
    response,          \* analyze_skill_gap: what the request returned or raised
    background_tasks,  \* the BackgroundTasks of the request in progress
    firestore,         \* users/{userId}/gap_analyses: the documents written, in order
    trace,             \* the collaborators the request in progress has invoked, in order
    served,            \* the requests completed so far, with their outcome
    threads,           \* thread pool: where each worker stands inside _load_spacy
    loads,             \* every assignment made to SkillExtractor._NLP, in order
    tables             \* the module-level dicts of extractor.py and matcher.py

vars == <<spacy, recognizer, _NLP, call, pc, req, resume_text, resume_skills,
          jd_skills, response, background_tasks, firestore, trace, served,
          threads, loads, tables>>

thread_vars == <<threads, loads>>

env_vars == <<spacy, recognizer>>

request_vars == <<pc, req, resume_text, resume_skills, jd_skills, response,
                  background_tasks, firestore, trace, served>>

NO_CALL == [op |-> "none"]
NO_REQUEST == [filename |-> "", content |-> "", jd_text |-> "",
               hours_per_week |-> 0, user_id |-> ""]
NO_RESPONSE == [status |-> 0, detail |-> "", body |-> <<>>]

\* Worker threads of the pool that run _extract_skills_sync at the same time.
MaxThreads == 2

THREADS == 1..MaxThreads

\* A worker outside _load_spacy, holding no pipeline.
NO_THREAD == [pc |-> "idle", loaded |-> "", nlp |-> ""]

\* The process right after import: the class attribute is None, nothing has
\* been called, no request is in progress, and the environment is any.
InitProcess ==
    /\ spacy \in SPACY_ENVS
    /\ recognizer \in (IF spacy = "installed" THEN RECOGNIZERS ELSE {"none"})
    /\ _NLP = "None"
    /\ call = NO_CALL
    /\ pc = "idle"
    /\ req = NO_REQUEST
    /\ resume_text = ""
    /\ resume_skills = <<>>
    /\ jd_skills = <<>>
    /\ response = NO_RESPONSE
    /\ background_tasks = <<>>
    /\ firestore = <<>>
    /\ trace = <<>>
    /\ threads = [t \in THREADS |-> NO_THREAD]
    /\ loads = <<>>
    /\ tables = STATIC_TABLES
    /\ served = <<>>

(***************************************************************************)
(* Calls of SkillExtractor.extract_flat                                    *)
(***************************************************************************)

\* Longest text, in tokens, built from the vocabulary.
MaxTokens == 3

VOCAB == {"spring", "boot", "microsoft", "sql", "server"}

RECURSIVE TextsOfLength(_)
TextsOfLength(n) ==
    IF n = 1 THEN VOCAB
    ELSE {t \o " " \o w : t \in TextsOfLength(n - 1), w \in VOCAB}

SCENARIO_TEXT == "Experience with React.js, Node.js, and PostgreSQL"

NAMED_TEXTS ==
    { "", "   ", "\t \n",
      "spring boot developer",
      SCENARIO_TEXT,
      "Ruby on Rails, Ruby and rails",
      "Amazon Web Services / google cloud platform",
      "react native react",
      "Python, python; PYTHON (aws) C++ c#",
      "I know Python.",
      "game developer",
      "k8s docker AWS kubernetes postgres",
      "python_dev node js",
      "azure devops azure functions azure" }

TEXTS == NAMED_TEXTS \cup UNION {TextsOfLength(n) : n \in 1..MaxTokens}

\* The caller takes the result of the last call; the next call may follow.
Return ==
    /\ call.op # "none"
    /\ call' = NO_CALL
    /\ UNCHANGED <<env_vars, thread_vars, tables, _NLP, request_vars>>

\* extractor.extract_flat(text) on a SkillExtractor, from any state of the class.
ExtractFlat(text) ==
    LET c == ExtractCall(text, _NLP, spacy, recognizer)
    IN  /\ call.op = "none"
        /\ _NLP' = c.nlp
        /\ call' = [op |-> "extract_flat"] @@ c
        /\ tables' = ApplyWrites(tables, extract_flat_writes(c))
        /\ UNCHANGED <<env_vars, thread_vars, request_vars>>

NextExtract ==
    \/ \E text \in TEXTS : ExtractFlat(text)
    \/ Return

SpecExtract == InitProcess /\ [][NextExtract]_vars

(***************************************************************************)
(* Calls of calculate_semantic_match                                       *)
(***************************************************************************)

\* Largest skill list handed to the scorer and to the roadmap builder.
MaxSkills == 4

SKILL_POOL == {"python", "docker", "kubernetes", "aws", "react", "postgresql"}

\* The lists extract_flat can hand over: sorted, without duplicates.
SKILL_LISTS == {Sorted(S) : S \in {S \in SUBSET SKILL_POOL : Cardinality(S) <= MaxSkills}}

\* Lists a caller may pass that are not yet lowercased and trimmed.
RAW_LISTS == { <<"Python", " docker ", "python">>, <<"AWS", "aws">> }

Score(resume, jd) ==
    /\ call.op = "none"
    /\ call' = [op     |-> "score",
                resume |-> resume,
                jd     |-> jd,
                breadth_bonus_x100 |->
                    BreadthBonus_x100(Cardinality(SkillSetOf(resume)),
                                      Cardinality(SkillSetOf(jd))),
                result |-> calculate_semantic_match(resume, jd)]
    /\ tables' = ApplyWrites(tables, calculate_semantic_match_writes(resume, jd))
    /\ UNCHANGED <<env_vars, thread_vars, _NLP, request_vars>>

NextScore ==
    \/ \E resume \in SKILL_LISTS \cup RAW_LISTS, jd \in SKILL_LISTS \cup RAW_LISTS :
          Score(resume, jd)
    \/ Return

\* The scorer and the roadmap builder never touch spaCy: one environment.
InitMatcher == InitProcess /\ spacy = "absent"

SpecScore == InitMatcher /\ [][NextScore]_vars

(***************************************************************************)
(* Calls of build_learning_velocity                                        *)
(***************************************************************************)

\* Longest missing-skill list handed to the roadmap builder directly.
MaxMissing == 3

\* One skill of each category, and one the taxonomy does not know.
MISSING_POOL == {"python", "react", "aws", "postgresql", "kubernetes", "unreal engine"}

\* Every list of distinct skills of the pool, in every order.
RECURSIVE ListsOfLength(_)
ListsOfLength(n) ==
    IF n = 0 THEN {<<>>}
    ELSE {Append(l, s) : l \in ListsOfLength(n - 1), s \in MISSING_POOL}

MISSING_LISTS ==
    {l \in UNION {ListsOfLength(n) : n \in 0..MaxMissing} :
        \A i, j \in 1..Len(l) : i # j => l[i] # l[j]}

\* hours_per_week as an int: the route admits 1..80, the function any int.
HOURS_PER_WEEK == {-5, 0, 1, 7, 10, 40, 80}

Velocity(missing, hours_per_week) ==
    /\ call.op = "none"
    /\ call' = [op             |-> "velocity",
                missing        |-> missing,
                hours_per_week |-> hours_per_week,
                result         |-> build_learning_velocity(missing, hours_per_week)]
    /\ tables' = ApplyWrites(tables, build_learning_velocity_writes(missing))
    /\ UNCHANGED <<env_vars, thread_vars, _NLP, request_vars>>

NextVelocity ==
    \/ \E missing \in MISSING_LISTS, h \in HOURS_PER_WEEK : Velocity(missing, h)
    \/ Return

SpecVelocity == InitMatcher /\ [][NextVelocity]_vars

(***************************************************************************)
(* Calls of get_skill_resources and get_category, and the roadmaps that    *)
(* rest on them                                                            *)
(***************************************************************************)

\* Names that are no key of any table as written: other case, padding,
\* blank, and skills the tables do not know.
ODD_NAMES ==
    {"", "  ", " Python ", "PYTHON", "\tDocker\n", "K8S", "React.JS",
     "unreal engine", "Unreal Engine", "quantum basket weaving", "c+++"}

\* Every canonical skill, every alias, every catalog key and the odd names.
LOOKUP_NAMES ==
    DOMAIN _SKILL_TO_CATEGORY \cup DOMAIN SKILL_ALIASES
        \cup DOMAIN SKILL_RESOURCES \cup ODD_NAMES

GetSkillResources(skill) ==
    /\ call.op = "none"
    /\ call' = [op     |-> "get_skill_resources",
                skill  |-> skill,
                result |-> get_skill_resources(skill)]
    /\ UNCHANGED <<env_vars, thread_vars, tables, _NLP, request_vars>>

\* extractor.get_category(skill) on a SkillExtractor
GetCategory(skill) ==
    /\ call.op = "none"
    /\ call' = [op     |-> "get_category",
                skill  |-> skill,
                result |-> get_category(skill)]
    /\ UNCHANGED <<env_vars, thread_vars, tables, _NLP, request_vars>>

NextLookup ==
    \/ \E skill \in LOOKUP_NAMES : GetSkillResources(skill)
    \/ \E skill \in LOOKUP_NAMES : GetCategory(skill)
    \/ \E missing \in MISSING_LISTS, h \in HOURS_PER_WEEK : Velocity(missing, h)
    \/ Return

SpecLookup == InitMatcher /\ [][NextLookup]_vars

(***************************************************************************)
(* _load_spacy on the workers of the thread pool.  run_in_threadpool hands *)
(* each request's _extract_skills_sync to a worker; the workers share the  *)
(* class attribute SkillExtractor._NLP and interleave between any two      *)
(* statements of _load_spacy, which takes no lock.                         *)
(***************************************************************************)

\* nlp = self._load_spacy(): the worker enters the method.
ThreadEnter(t) ==
    /\ threads[t].pc \in {"idle", "done"}
    /\ threads' = [threads EXCEPT ![t] = [pc |-> "guard", loaded |-> "", nlp |-> ""]]
    /\ UNCHANGED <<env_vars, tables, _NLP, call, request_vars, loads>>

\* if cls._NLP is not None: return cls._NLP if cls._NLP is not False else None
ThreadGuard(t) ==
    /\ threads[t].pc = "guard"
    /\ threads' = [threads EXCEPT ![t] =
                      IF _NLP # "None"
                      THEN [pc |-> "done", loaded |-> "",
                            nlp |-> IF _NLP = "False" THEN "None" ELSE _NLP]
                      ELSE [pc |-> "load", loaded |-> "", nlp |-> ""]]
    /\ UNCHANGED <<env_vars, tables, _NLP, call, request_vars, loads>>

\* import spacy; spacy.load("en_core_web_sm"), or spacy.blank("en") on
\* OSError, or False on ImportError: the value is built, not yet stored.
ThreadLoad(t) ==
    /\ threads[t].pc = "load"
    /\ threads' = [threads EXCEPT ![t] =
                      [pc |-> "assign", loaded |-> LoadedPipeline(spacy), nlp |-> ""]]
    /\ UNCHANGED <<env_vars, tables, _NLP, call, request_vars, loads>>

\* cls._NLP = <the value built>
ThreadAssign(t) ==
    /\ threads[t].pc = "assign"
    /\ _NLP' = threads[t].loaded
    /\ loads' = Append(loads, [by |-> t, was |-> _NLP, value |-> threads[t].loaded])
    /\ threads' = [threads EXCEPT ![t].pc = "return"]
    /\ UNCHANGED <<env_vars, tables, call, request_vars>>

\* return cls._NLP if cls._NLP is not False else None
ThreadReturn(t) ==
    /\ threads[t].pc = "return"
    /\ threads' = [threads EXCEPT ![t] =
                      [pc |-> "done", loaded |-> threads[t].loaded,
                       nlp |-> IF _NLP = "False" THEN "None" ELSE _NLP]]
    /\ UNCHANGED <<env_vars, tables, _NLP, call, request_vars, loads>>

NextThreads ==
    \E t \in THREADS :
        \/ ThreadEnter(t)
        \/ ThreadGuard(t)
        \/ ThreadLoad(t)
        \/ ThreadAssign(t)
        \/ ThreadReturn(t)

SpecThreads == InitProcess /\ [][NextThreads]_vars

(***************************************************************************)
(* parser.py, storage.py and gap_analyzer.py: the /analyze-gap request     *)
(***************************************************************************)

\* str.endswith
EndsWith(s, suffix) ==
    /\ Len(s) >= Len(suffix)
    /\ SubSeq(s, Len(s) - Len(suffix) + 1, Len(s)) = suffix

\* extract_text_from_file: the text of the upload, or the 415 it raises.
\* content stands for what the bytes decode or parse to; the PDF and DOCX
\* libraries are outside the repository.
extract_text_from_file(file) ==
    LET filename == Lower(file.filename)
    IN  IF \/ EndsWith(filename, ".pdf")
           \/ EndsWith(filename, ".docx")
           \/ EndsWith(filename, ".txt")
        THEN [status |-> 200, text |-> Strip(file.content)]
        ELSE [status |-> 415, text |-> ""]

\* An HTTPException raised by the handler, or an exception that escapes it
\* (which the framework answers with 500).
Failure(status, detail) == [status |-> status, detail |-> detail, body |-> <<>>]

\* Requests the model serves in one behaviour.
MaxRequests == 2

\* Form(default=10, ge=1, le=80): the framework rejects other values before
\* the handler runs.
MIN_HOURS_PER_WEEK == 1
MAX_HOURS_PER_WEEK == 80

REQUESTS ==
    [filename       : {"cv.TXT", "cv.exe"},
     content        : {"  ", "I know Python."},
     jd_text        : {" ", "game developer", "I know Python.",
                       "Python, Docker, Kubernetes, AWS"},
     hours_per_week : {h \in {0, 10} : MIN_HOURS_PER_WEEK <= h /\ h <= MAX_HOURS_PER_WEEK},
     user_id        : {"uid-1"}]

\* The handler is entered with the form fields and the authenticated user.
Receive(r) ==
    /\ pc = "idle"
    /\ Len(served) < MaxRequests
    /\ pc' = "validate"
    /\ req' = r
    /\ UNCHANGED <<env_vars, thread_vars, tables, _NLP, call, resume_text, resume_skills, jd_skills,
                   response, background_tasks, firestore, trace, served>>

\* A handler that goes on to read the resume without looking at jd_text.
ValidateJd_skipped ==
    /\ pc = "validate"
    /\ pc' = "parse"
    /\ UNCHANGED <<env_vars, thread_vars, tables, _NLP, call, req, resume_text, resume_skills,
                   jd_skills, response, background_tasks, firestore, trace, served>>

\* 1. if not jd_text.strip(): raise HTTPException(422)
ValidateJd ==
    /\ pc = "validate"
    /\ IF Strip(req.jd_text) = ""
       THEN /\ response' = Failure(422, "jd_text must not be empty.")
            /\ pc' = "done"
       ELSE /\ response' = response
            /\ pc' = "parse"
    /\ UNCHANGED <<env_vars, thread_vars, tables, _NLP, call, req, resume_text, resume_skills, jd_skills,
                   background_tasks, firestore, trace, served>>

\* 2. resume_text = await extract_text_from_file(resume_file), then the
\* check that it is not blank.
ParseResume ==
    /\ pc = "parse"
    /\ LET parsed == extract_text_from_file(req)
       IN  /\ trace' = Append(trace, "extract_text_from_file")
           /\ IF parsed.status # 200
              THEN /\ response' = Failure(415, "Unsupported resume format.")
                   /\ resume_text' = resume_text
                   /\ pc' = "done"
              ELSE IF Strip(parsed.text) = ""
              THEN /\ response' = Failure(422, "Could not extract any text from the resume file.")
                   /\ resume_text' = parsed.text
                   /\ pc' = "done"
              ELSE /\ response' = response
                   /\ resume_text' = parsed.text
                   /\ pc' = "extract"
    /\ UNCHANGED <<env_vars, thread_vars, tables, _NLP, call, req, resume_skills, jd_skills,
                   background_tasks, firestore, served>>

\* 3. _extract_skills_sync in the thread pool: extract_flat of the resume,
\* then of the job description, on one SkillExtractor.  An exception of
\* either call escapes the handler.
ExtractSkills ==
    /\ pc = "extract"
    /\ \E first \in {ExtractCall(resume_text, _NLP, spacy, recognizer)} :
         IF first.raised # "none"
         THEN /\ _NLP' = first.nlp
              /\ tables' = ApplyWrites(tables, extract_flat_writes(first))
              /\ trace' = Append(trace, "extract_flat")
              /\ UNCHANGED <<resume_skills, jd_skills>>
              /\ response' = Failure(500, first.raised)
              /\ pc' = "done"
         ELSE \E second \in {ExtractCall(req.jd_text, first.nlp, spacy, recognizer)} :
                /\ _NLP' = second.nlp
                /\ tables' = ApplyWrites(tables, extract_flat_writes(first)
                                                   \o extract_flat_writes(second))
                /\ trace' = trace \o <<"extract_flat", "extract_flat">>
                /\ IF second.raised # "none"
                   THEN /\ UNCHANGED <<resume_skills, jd_skills>>
                        /\ response' = Failure(500, second.raised)
                        /\ pc' = "done"
                   ELSE /\ resume_skills' = first.flat
                        /\ jd_skills' = second.flat
                        /\ response' = response
                        /\ pc' = IF second.flat = <<>> THEN "fallback" ELSE "score"
    /\ UNCHANGED <<env_vars, thread_vars, call, req, resume_text, background_tasks, firestore, served>>

\* 3b. if not jd_skills: jd_skills = extractor.infer_skills_from_role(jd_text).
\* SkillExtractor defines no such method: the attribute lookup raises
\* AttributeError, which escapes the handler, so the "still nothing" branch
\* below it is never reached.
RoleFallback ==
    /\ pc = "fallback"
    /\ trace' = Append(trace, "infer_skills_from_role")
    /\ response' = Failure(500, "AttributeError")
    /\ pc' = "done"
    /\ UNCHANGED <<env_vars, thread_vars, tables, _NLP, call, req, resume_text, resume_skills, jd_skills,
                   background_tasks, firestore, served>>

\* A handler that schedules the save in two places.
add_task_twice(tasks, func, user_id, payload) ==
    tasks \o << [task |-> func, user_id |-> user_id, payload |-> payload],
                [task |-> func, user_id |-> user_id, payload |-> payload] >>

\* background_tasks.add_task(save_gap_analysis, user_id, response_payload)
add_task(tasks, func, user_id, payload) ==
    Append(tasks, [task |-> func, user_id |-> user_id, payload |-> payload])

\* 4.-7. score, roadmap, response payload, add_task(save_gap_analysis), return.
ScoreAndRespond ==
    /\ pc = "score"
    /\ LET match_result == calculate_semantic_match(resume_skills, jd_skills)
           velocity     == build_learning_velocity(match_result.missing_skills,
                                                   req.hours_per_week)
           response_payload ==
               [match_percentage_x100    |-> match_result.match_percentage_x100,
                job_readiness_score_x100 |-> match_result.job_readiness_score_x100,
                matched_skills           |-> match_result.matched_skills,
                missing_skills           |-> match_result.missing_skills,
                learning_velocity        |-> velocity]
       IN  /\ background_tasks' = add_task(background_tasks, "save_gap_analysis",
                                           req.user_id, response_payload)
           /\ response' = [status |-> 200, detail |-> "", body |-> <<response_payload>>]
           /\ tables' = ApplyWrites(tables,
                             calculate_semantic_match_writes(resume_skills, jd_skills)
                             \o build_learning_velocity_writes(match_result.missing_skills))
    /\ trace' = trace \o <<"calculate_semantic_match", "build_learning_velocity", "add_task">>
    /\ pc' = "responded"
    /\ UNCHANGED <<env_vars, thread_vars, _NLP, call, req, resume_text, resume_skills, jd_skills,
                   firestore, served>>

\* The body of the "still nothing" return: every number zero, every list
\* empty.
ZERO_RESPONSE ==
    [match_percentage_x100    |-> 0,
     job_readiness_score_x100 |-> 0,
     matched_skills           |-> <<>>,
     missing_skills           |-> <<>>,
     learning_velocity        |-> [total_estimated_hours |-> 0,
                                   weeks_to_readiness_x10 |-> 0,
                                   roadmap |-> <<>>]]

\* save_gap_analysis: one document under users/{user_id}/gap_analyses.
save_gap_analysis(store, user_id, payload) ==
    Append(store, [user_id |-> user_id, data |-> payload, analyzed_at |-> "utcnow"])

\* After the response is sent the framework runs the background tasks.
RunBackgroundTasks ==
    /\ pc = "responded"
    /\ background_tasks # <<>>
    /\ firestore' = save_gap_analysis(firestore, Head(background_tasks).user_id,
                                      Head(background_tasks).payload)
    /\ tables' = ApplyWrites(tables, save_gap_analysis_writes(Head(background_tasks).payload))
    /\ background_tasks' = Tail(background_tasks)
    /\ trace' = Append(trace, "save_gap_analysis")
    /\ pc' = IF Tail(background_tasks) = <<>> THEN "done" ELSE "responded"
    /\ UNCHANGED <<env_vars, thread_vars, _NLP, call, req, resume_text, resume_skills, jd_skills,
                   response, served>>

\* The request is over: its frame is dropped; served keeps what it did.
Complete ==
    /\ pc = "done"
    /\ served' = Append(served, [req           |-> req,
                                 resume_text   |-> resume_text,
                                 resume_skills |-> resume_skills,
                                 jd_skills     |-> jd_skills,
                                 trace         |-> trace,
                                 extracted     |-> \E k \in 1..Len(trace) :
                                     trace[k] \in {"infer_skills_from_role",
                                                   "calculate_semantic_match"},
                                 response      |-> response])
    /\ pc' = "idle"
    /\ req' = NO_REQUEST
    /\ resume_text' = ""
    /\ resume_skills' = <<>>
    /\ jd_skills' = <<>>
    /\ response' = NO_RESPONSE
    /\ trace' = <<>>
    /\ UNCHANGED <<env_vars, thread_vars, tables, _NLP, call, background_tasks, firestore>>

Next ==
    \/ \E r \in REQUESTS : Receive(r)
    \/ ValidateJd
    \/ ParseResume
    \/ ExtractSkills
    \/ RoleFallback
    \/ ScoreAndRespond
    \/ RunBackgroundTasks
    \/ Complete

Spec == InitProcess /\ [][Next]_vars

(***************************************************************************)
(* Calls of every public function in any order, and save_gap_analysis of   *)
(* the dicts they return                                                   *)
(***************************************************************************)

\* Documents written to Firestore in one behaviour of the calls below.
MaxSaved == 1

TABLE_TEXTS == {"", "I know Python.", "k8s docker AWS kubernetes postgres"}

TABLE_NAMES == {"", "python", " Python ", "k8s", "unreal engine"}

TABLE_LISTS == {<<"kubernetes", "python">>, <<"aws", "unreal engine">>}

TABLE_HOURS == {10}

\* extractor.extract(text) on a SkillExtractor, from any state of the class.
Extract(text) ==
    LET c == ExtractCall(text, _NLP, spacy, recognizer)
    IN  /\ call.op = "none"
        /\ _NLP' = c.nlp
        /\ call' = [op |-> "extract"] @@ c
        /\ tables' = ApplyWrites(tables, extract_writes(c))
        /\ UNCHANGED <<env_vars, thread_vars, request_vars>>

\* The dict the last call returned, if it returned one.
ReturnedDict(c) ==
    IF c.op = "extract" /\ c.raised = "none" THEN <<c.categorised>>
    ELSE IF c.op \in {"score", "velocity"} THEN <<c.result>>
    ELSE <<>>

\* save_gap_analysis(user_id, payload) with the dict the caller just got.
SaveResult(user_id) ==
    /\ ReturnedDict(call) # <<>>
    /\ Len(firestore) < MaxSaved
    /\ firestore' = save_gap_analysis(firestore, user_id, ReturnedDict(call)[1])
    /\ tables' = ApplyWrites(tables, save_gap_analysis_writes(ReturnedDict(call)[1]))
    /\ UNCHANGED <<env_vars, thread_vars, _NLP, call, pc, req, resume_text,
                   resume_skills, jd_skills, response, background_tasks, trace,
                   served>>

NextTables ==
    \/ \E text \in TABLE_TEXTS : Extract(text)
    \/ \E text \in TABLE_TEXTS : ExtractFlat(text)
    \/ \E skill \in TABLE_NAMES : GetCategory(skill)
    \/ \E resume \in TABLE_LISTS, jd \in TABLE_LISTS : Score(resume, jd)
    \/ \E missing \in TABLE_LISTS \cup {<<>>}, h \in TABLE_HOURS : Velocity(missing, h)
    \/ \E skill \in TABLE_NAMES : GetSkillResources(skill)
    \/ SaveResult("uid-1")
    \/ Return

SpecTables == InitProcess /\ [][NextTables]_vars

(***************************************************************************)
(* Properties of the extractor                                             *)
(***************************************************************************)

\* The token positions a matched window covers.
Covered(match) == match.i..(match.i + match.size - 1)

\* Whether match a was made before window (size, i) is visited: the sizes
\* run 3, 2, 1 and each size runs left to right.
VisitedBefore(a, size, i) == a.size > size \/ (a.size = size /\ a.i < i)

\* C1: longest-match priority of _keyword_match.  The matched windows are
\* visited in sizes 3, 2, 1 and left to right within a size; no two of them
\* share a token position, so each position counts for at most one skill;
\* a window whose phrase is a canonical skill is left unmatched exactly when
\* an earlier match (a longer one, or one of its size further left) holds
\* one of its positions; and "spring boot developer" yields "spring boot"
\* without "spring".
C1_LongestMatchPriority ==
    call.op = "extract_flat" =>
        LET tokens  == Tokenize(call.text)
            n       == Len(tokens)
            matches == call.scan.matches
            IsSkill(size, i) ==
                _normalize(JoinWindow(tokens, i, size)) \in DOMAIN _SKILL_TO_CATEGORY
            Matched(size, i) ==
                \E k \in 1..Len(matches) : matches[k].size = size /\ matches[k].i = i
        IN  /\ \A k \in 1..Len(matches) : \A l \in (k+1)..Len(matches) :
                  /\ VisitedBefore(matches[k], matches[l].size, matches[l].i)
                  /\ Covered(matches[k]) \cap Covered(matches[l]) = {}
            /\ call.scan.found = {matches[k].skill : k \in 1..Len(matches)}
            /\ \A size \in 1..3 : \A i \in 0..(n - size) :
                  IsSkill(size, i) =>
                      ( Matched(size, i) <=>
                        ~ \E k \in 1..Len(matches) :
                              /\ VisitedBefore(matches[k], size, i)
                              /\ Covered(matches[k]) \cap (i..(i + size - 1)) # {} )
            /\ call.text = "spring boot developer" =>
                  /\ "spring boot" \in call.scan.found
                  /\ "spring" \notin call.scan.found

\* C1 witness: a 3-gram matched and a shorter canonical skill inside it
\* ("sql" inside "microsoft sql server") was left out of the result.
C1_Witness ==
    /\ call.op = "extract_flat"
    /\ \E k \in 1..Len(call.scan.matches) :
          /\ call.scan.matches[k].size = 3
          /\ \E j \in Covered(call.scan.matches[k]) :
                LET word == _normalize(Tokenize(call.text)[j + 1])
                IN  /\ word \in DOMAIN _SKILL_TO_CATEGORY
                    /\ word \notin call.scan.found

\* C2: extract_flat of the scenario text returns a list that includes
\* "react", "nodejs" and "postgresql".
C2_ScenarioSkills ==
    (call.op = "extract_flat" /\ call.text = SCENARIO_TEXT /\ call.raised = "none")
        => {"react", "nodejs", "postgresql"} \subseteq Range(call.flat)

\* C3: every list extract_flat returns is strictly ascending in code-point
\* order (hence free of duplicates), and it is empty for an empty or
\* whitespace-only text.
C3_SortedNoDuplicates ==
    (call.op = "extract_flat" /\ call.raised = "none") =>
        /\ \A i \in 1..Len(call.flat) : \A j \in (i+1)..Len(call.flat) :
              StrLess(call.flat[i], call.flat[j])
        /\ Strip(call.text) = "" => call.flat = <<>>

\* C3 witness: a returned list of several skills from several categories,
\* for a text that names one of them more than once.
C3_Witness ==
    /\ call.op = "extract_flat"
    /\ call.raised = "none"
    /\ Len(call.flat) >= 3
    /\ Cardinality(DOMAIN call.categorised) >= 2
    /\ Len(call.scan.matches) > Cardinality(call.scan.found)

(***************************************************************************)
(* Properties of the request pipeline (Spec)                               *)
(***************************************************************************)

\* The skills each completed extraction of a served request returned, with
\* the text it was given.
Extractions ==
    UNION {{[text |-> served[k].resume_text, skills |-> served[k].resume_skills],
            [text |-> served[k].req.jd_text, skills |-> served[k].jd_skills]}
           : k \in {n \in 1..Len(served) : served[n].extracted}}

\* C4: extraction and the whole pipeline are deterministic.  Within one
\* process, whatever calls came before -- the call that lazily initialises
\* the recognizer included -- the same text always yields the same skill
\* list, and two requests with the same resume, job description and hours
\* per week receive the same response.
C4_Deterministic ==
    /\ \A a, b \in Extractions : a.text = b.text => a.skills = b.skills
    /\ \A i, j \in 1..Len(served) :
          served[i].req = served[j].req => served[i].response = served[j].response

\* The same request served twice with status 200, the first one on an
\* uninitialised recognizer that then contributes a skill the keyword scan
\* does not find, and the same text extracted as resume and as job
\* description.
C4_Witness ==
    /\ Len(served) = 2
    /\ spacy = "installed"
    /\ _NLP = "en_core_web_sm"
    /\ served[1].req = served[2].req
    /\ served[1].response.status = 200
    /\ served[1].resume_text = served[1].req.jd_text
    /\ served[1].resume_skills # <<>>
    /\ _keyword_match(served[1].resume_text) = {}

(***************************************************************************)
(* Properties of the scorer                                                *)
(***************************************************************************)

\* Strictly ascending in code-point order.
Ascending(seq) ==
    \A i \in 1..Len(seq) : \A j \in (i+1)..Len(seq) : StrLess(seq[i], seq[j])

\* v is num/den rounded to the nearest integer (den > 0).
Nearest(v, num, den) == 2 * (v * den - num) <= den /\ 2 * (num - v * den) <= den

\* C5: for a non-empty JD skill set, matched_skills is the resume skills that
\* the JD names and missing_skills the JD skills the resume lacks, each
\* ascending; the two are disjoint and make up the JD set; match_percentage
\* is |matched| / |JD| * 100 to the nearest hundredth; and resume
\* {python, docker} against JD {python, docker, kubernetes, aws} gives 50.0,
\* [docker, python] and [aws, kubernetes].
C5_MatchedMissingPercentage ==
    (call.op = "score" /\ SkillSetOf(call.jd) # {}) =>
        LET R   == SkillSetOf(call.resume)
            J   == SkillSetOf(call.jd)
            res == call.result
        IN  /\ Range(res.matched_skills) = R \cap J
            /\ Range(res.missing_skills) = J \ R
            /\ Ascending(res.matched_skills)
            /\ Ascending(res.missing_skills)
            /\ Range(res.matched_skills) \cap Range(res.missing_skills) = {}
            /\ Range(res.matched_skills) \cup Range(res.missing_skills) = J
            /\ Nearest(res.match_percentage_x100,
                       Len(res.matched_skills) * 10000, Cardinality(J))
            /\ (R = {"python", "docker"} /\ J = {"python", "docker", "kubernetes", "aws"})
                  => /\ res.match_percentage_x100 = 5000
                     /\ res.matched_skills = <<"docker", "python">>
                     /\ res.missing_skills = <<"aws", "kubernetes">>

\* C5 witness: the scenario of the claim has been scored.
C5_Witness ==
    /\ call.op = "score"
    /\ call.resume = <<"docker", "python">>
    /\ call.jd = <<"aws", "docker", "kubernetes", "python">>
    /\ call.result.match_percentage_x100 = 5000

\* C6: for a non-empty JD skill set, the breadth bonus is 20 points per unit
\* of |resume| / |JD|, to the nearest hundredth, never above 30 and exactly 30
\* once the resume holds at least 1.5 times as many skills as the JD; and
\* job_readiness_score is min(0.70 * match_percentage + bonus, 100) to the
\* nearest hundredth.
C6_ReadinessFormula ==
    (call.op = "score" /\ SkillSetOf(call.jd) # {}) =>
        LET r     == Cardinality(SkillSetOf(call.resume))
            j     == Cardinality(SkillSetOf(call.jd))
            bonus == call.breadth_bonus_x100
            pct   == call.result.match_percentage_x100
            score == call.result.job_readiness_score_x100
        IN  /\ bonus <= 3000
            /\ 2 * r >= 3 * j => bonus = 3000
            /\ 2 * r < 3 * j => Nearest(bonus, 2000 * r, j)
            /\ IF 70 * pct + 100 * bonus >= 1000000 THEN score = 10000
               ELSE Nearest(score, 70 * pct + 100 * bonus, 100)

\* C6 witness: a resume with twice the skills of the JD, none of them
\* matching: the score is the capped bonus alone.
C6_Witness ==
    /\ call.op = "score"
    /\ Cardinality(SkillSetOf(call.jd)) = 2
    /\ Cardinality(SkillSetOf(call.resume)) = 4
    /\ call.result.match_percentage_x100 = 0
    /\ call.result.job_readiness_score_x100 = 3000

\* C7: whatever the two skill lists, empty ones included, match_percentage
\* and job_readiness_score lie between 0 and 100.
C7_ScoreBounds ==
    call.op = "score" =>
        /\ 0 <= call.result.match_percentage_x100
        /\ call.result.match_percentage_x100 <= 10000
        /\ 0 <= call.result.job_readiness_score_x100
        /\ call.result.job_readiness_score_x100 <= 10000

\* C7 witness: the upper bound is reached, by a resume that covers the JD
\* and is at least 1.5 times its size.
C7_Witness ==
    /\ call.op = "score"
    /\ call.result.match_percentage_x100 = 10000
    /\ call.result.job_readiness_score_x100 = 10000

\* C8: with an empty JD list the result is 0.0, 0.0, [] and [], whatever the
\* resume holds.
C8_EmptyJdContract ==
    (call.op = "score" /\ call.jd = <<>>) =>
        call.result = [match_percentage_x100    |-> 0,
                       job_readiness_score_x100 |-> 0,
                       matched_skills           |-> <<>>,
                       missing_skills           |-> <<>>]

\* C8 witness: an empty JD scored against a resume of several skills.
C8_Witness ==
    /\ call.op = "score"
    /\ call.jd = <<>>
    /\ Len(call.resume) >= 3
    /\ call.result.job_readiness_score_x100 = 0

(***************************************************************************)
(* Properties of the roadmap builder                                       *)
(***************************************************************************)

\* C9: a request whose job description yields no skills, from the primary
\* extraction and then from the role fallback, is answered with status 200
\* and the all-zero body (both percentages 0, both lists empty, 0 hours,
\* 0 weeks, empty roadmap), not with an error.
C9_EmptyJdSkillsAnsweredWithZeros ==
    \A k \in 1..Len(served) :
        (served[k].extracted /\ served[k].jd_skills = <<>>)
            => served[k].response = [status |-> 200, detail |-> "",
                                     body |-> <<ZERO_RESPONSE>>]

\* The phases of a roadmap that carry the given name.
PhasesNamed(roadmap, name) == {k \in 1..Len(roadmap) : roadmap[k].phase = name}

\* C10: for a non-empty list of distinct missing skills, every skill is in
\* exactly one phase, and it is in "Immediate Gaps" exactly when the hours
\* of its category are at most 20 (a 20-hour cloud skill included) and in
\* "Advanced Mastery" otherwise; each phase's estimated_hours is the sum of
\* its members' hours; and the phase sums add up to total_estimated_hours.
C10_PhasePartition ==
    (call.op = "velocity" /\ call.missing # <<>>) =>
        LET roadmap == call.result.roadmap
            HoursOf(skill) == HTL_BY_CATEGORY[get_category(skill)]
            Holding(skill) ==
                {k \in 1..Len(roadmap) : skill \in Range(roadmap[k].skills)}
        IN  /\ \A skill \in Range(call.missing) :
                  /\ Cardinality(Holding(skill)) = 1
                  /\ \A k \in Holding(skill) :
                        roadmap[k].phase = IF HoursOf(skill) <= 20
                                           THEN "Immediate Gaps"
                                           ELSE "Advanced Mastery"
            /\ \A k \in 1..Len(roadmap) :
                  /\ Range(roadmap[k].skills) \subseteq Range(call.missing)
                  /\ Len(roadmap[k].skill_details) = Len(roadmap[k].skills)
                  /\ \A d \in 1..Len(roadmap[k].skills) :
                        /\ roadmap[k].skill_details[d].name = roadmap[k].skills[d]
                        /\ roadmap[k].skill_details[d].hours = HoursOf(roadmap[k].skills[d])
                  /\ roadmap[k].estimated_hours =
                        SumSeq([d \in 1..Len(roadmap[k].skills) |->
                                   roadmap[k].skill_details[d].hours])
            /\ SumSeq([k \in 1..Len(roadmap) |-> roadmap[k].estimated_hours])
                  = call.result.total_estimated_hours

\* C10 witness: both phases present, with the 20-hour cloud skill "aws" in
\* "Immediate Gaps".
C10_Witness ==
    /\ call.op = "velocity"
    /\ Len(call.result.roadmap) = 2
    /\ \E k \in PhasesNamed(call.result.roadmap, "Immediate Gaps") :
          "aws" \in Range(call.result.roadmap[k].skills)
    /\ PhasesNamed(call.result.roadmap, "Advanced Mastery") # {}

(***************************************************************************)
(* Properties of the roadmap's numbers and labels                          *)
(***************************************************************************)

\* The decimal numeral s as a number.
RECURSIVE NatOf(_)
NatOf(s) ==
    IF s = "" THEN 0
    ELSE 10 * NatOf(SubSeq(s, 1, Len(s) - 1)) + (IndexIn(CharAt(s, Len(s)), DIGITS) - 1)

\* The first and last week a timeline label names: "Week a" or "Week a-b".
WeekSpan(label) ==
    LET rest   == SubSeq(label, 6, Len(label))
        dashes == {i \in 1..Len(rest) : CharAt(rest, i) = EN_DASH}
        d      == CHOOSE i \in dashes : TRUE
    IN  IF dashes = {}
        THEN [first |-> NatOf(rest), last |-> NatOf(rest)]
        ELSE [first |-> NatOf(SubSeq(rest, 1, d - 1)),
              last  |-> NatOf(SubSeq(rest, d + 1, Len(rest)))]

\* A label is "Week", a space, and one or two numerals of digits.
WellFormedLabel(label) ==
    /\ Len(label) >= 6
    /\ SubSeq(label, 1, 5) = "Week "
    /\ Cardinality({i \in 6..Len(label) : CharAt(label, i) = EN_DASH}) <= 1
    /\ \A i \in 6..Len(label) :
          \/ CharIn(CharAt(label, i), DIGITS)
          \/ /\ CharAt(label, i) = EN_DASH
             /\ 6 < i /\ i < Len(label)

\* v is round(num / den) of Python: the nearest integer, a tie to the even one.
IsRound(v, num, den) ==
    /\ Nearest(v, num, den)
    /\ 2 * (v * den - num) = den => v % 2 = 0
    /\ 2 * (num - v * den) = den => v % 2 = 0

RoundOf(num, den) == CHOOSE v \in 0..(num + 1) : IsRound(v, num, den)

\* The hours the claims give each category.
HoursOfCategory ==
    [language |-> 40, framework |-> 30, cloud |-> 20, database |-> 15, tool |-> 10]

\* The pace the builder divides by.
Pace(hours_per_week) == IF hours_per_week >= 1 THEN hours_per_week ELSE 1

\* C11: total_estimated_hours is the sum over the missing skills of the
\* hours of each skill's category (language 40, framework 30, cloud 20,
\* database 15, tool 10) and, for a pace of at least one hour per week,
\* weeks_to_readiness is total / hours_per_week to the nearest tenth;
\* [aws, kubernetes] at 10 hours per week gives 30 hours, one phase
\* "Immediate Gaps" holding both with estimated_hours 30, and 3.0 weeks.
C11_TotalHoursAndWeeks ==
    (call.op = "velocity" /\ call.hours_per_week >= 1) =>
        LET result == call.result
        IN  /\ result.total_estimated_hours =
                  SumSeq([k \in 1..Len(call.missing) |->
                             HoursOfCategory[get_category(call.missing[k])]])
            /\ Nearest(result.weeks_to_readiness_x10,
                       10 * result.total_estimated_hours, call.hours_per_week)
            /\ (call.missing = <<"aws", "kubernetes">> /\ call.hours_per_week = 10) =>
                  /\ result.total_estimated_hours = 30
                  /\ result.weeks_to_readiness_x10 = 30
                  /\ Len(result.roadmap) = 1
                  /\ result.roadmap[1].phase = "Immediate Gaps"
                  /\ result.roadmap[1].skills = <<"aws", "kubernetes">>
                  /\ result.roadmap[1].estimated_hours = 30

\* C11 witness: skills of different categories at a pace that does not
\* divide ten times their hours, so the weeks are a rounded quotient.
C11_Witness ==
    /\ call.op = "velocity"
    /\ call.hours_per_week >= 1
    /\ Cardinality({get_category(s) : s \in Range(call.missing)}) >= 2
    /\ (10 * call.result.total_estimated_hours) % call.hours_per_week # 0
    /\ 2 * ((10 * call.result.total_estimated_hours) % call.hours_per_week)
          > call.hours_per_week

\* C12: for hours_per_week <= 0 the builder returns exactly what it returns
\* for hours_per_week = 1, and neither weeks_to_readiness nor any week of a
\* timeline label is negative.
C12_HoursPerWeekClamp ==
    (call.op = "velocity" /\ call.hours_per_week <= 0) =>
        /\ call.result = build_learning_velocity(call.missing, 1)
        /\ call.result.weeks_to_readiness_x10 >= 0
        /\ \A k \in 1..Len(call.result.roadmap) :
              /\ WellFormedLabel(call.result.roadmap[k].timeline)
              /\ WeekSpan(call.result.roadmap[k].timeline).first >= 1
              /\ WeekSpan(call.result.roadmap[k].timeline).last
                    >= WeekSpan(call.result.roadmap[k].timeline).first

\* C12 witness: a negative pace with both phases in the roadmap.
C12_Witness ==
    /\ call.op = "velocity"
    /\ call.hours_per_week < 0
    /\ Len(call.result.roadmap) = 2

\* C13 as stated: when "Immediate Gaps" is present its timeline is "Week 1"
\* if its hours do not exceed hours_per_week, and otherwise "Week 1-W" with
\* W = max(round(phase1_hours / hours_per_week), 1).
C13_Phase1LabelByHours ==
    call.op = "velocity" =>
        \A k \in PhasesNamed(call.result.roadmap, "Immediate Gaps") :
            LET phase == call.result.roadmap[k]
                pace  == Pace(call.hours_per_week)
                W     == Max(RoundOf(phase.estimated_hours, pace), 1)
            IN  phase.timeline =
                    IF phase.estimated_hours <= pace THEN "Week 1"
                    ELSE "Week 1" \o EN_DASH \o ToString(W)

\* C13 amended: when "Immediate Gaps" is present, with
\* W = max(round(phase1_hours / hours_per_week), 1) (hours_per_week taken
\* as at least 1), its timeline is "Week 1" if W = 1 and "Week 1-W"
\* otherwise.
C13_Phase1LabelByWeeks ==
    call.op = "velocity" =>
        \A k \in PhasesNamed(call.result.roadmap, "Immediate Gaps") :
            LET phase == call.result.roadmap[k]
                pace  == Pace(call.hours_per_week)
                W     == Max(RoundOf(phase.estimated_hours, pace), 1)
            IN  phase.timeline =
                    IF W = 1 THEN "Week 1"
                    ELSE "Week 1" \o EN_DASH \o ToString(W)

\* C13 witness: a first phase whose hours exceed the weekly pace and still
\* round to one week, labelled "Week 1".
C13_Witness ==
    /\ call.op = "velocity"
    /\ call.hours_per_week >= 1
    /\ \E k \in PhasesNamed(call.result.roadmap, "Immediate Gaps") :
          /\ call.result.roadmap[k].estimated_hours > call.hours_per_week
          /\ call.result.roadmap[k].timeline = "Week 1"

\* C14: when "Advanced Mastery" is present its label is "Week S-E" with
\* S = max(round(phase1_hours / hours_per_week) + 1, 3) and
\* E = max(round(total_hours / hours_per_week), S + 1); so S >= 3,
\* E >= S + 1, S is later than the last week W of the "Immediate Gaps"
\* label, and S = W + 1 whenever W >= 2.
C14_Phase2Timeline ==
    call.op = "velocity" =>
        \A k \in PhasesNamed(call.result.roadmap, "Advanced Mastery") :
            LET roadmap == call.result.roadmap
                pace    == Pace(call.hours_per_week)
                firsts  == PhasesNamed(roadmap, "Immediate Gaps")
                p1      == SumSeq([j \in 1..Len(roadmap) |->
                               IF j \in firsts THEN roadmap[j].estimated_hours ELSE 0])
                S       == Max(RoundOf(p1, pace) + 1, 3)
                E       == Max(RoundOf(call.result.total_estimated_hours, pace), S + 1)
                span    == WeekSpan(roadmap[k].timeline)
            IN  /\ roadmap[k].timeline =
                      "Week " \o ToString(S) \o EN_DASH \o ToString(E)
                /\ WellFormedLabel(roadmap[k].timeline)
                /\ span.first = S /\ span.last = E
                /\ span.first >= 3
                /\ span.last >= span.first + 1
                /\ \A j \in firsts :
                      LET W == WeekSpan(roadmap[j].timeline).last
                      IN  /\ span.first > W
                          /\ W >= 2 => span.first = W + 1

\* C14 witness: both phases, the first one ending in week 3 or later, so
\* the second starts after week 3, right behind it.
C14_Witness ==
    /\ call.op = "velocity"
    /\ \E k \in PhasesNamed(call.result.roadmap, "Advanced Mastery") :
       \E j \in PhasesNamed(call.result.roadmap, "Immediate Gaps") :
          /\ WeekSpan(call.result.roadmap[j].timeline).last >= 3
          /\ WeekSpan(call.result.roadmap[k].timeline).first
                = WeekSpan(call.result.roadmap[j].timeline).last + 1

\* The place of a skill in a list of distinct skills.
PlaceIn(skill, list) == CHOOSE i \in 1..Len(list) : list[i] = skill

\* C15: an empty missing-skill list gives 0 hours, 0.0 weeks and an empty
\* roadmap whatever the pace; a non-empty one gives one or two phases, none
\* of them without skills, "Immediate Gaps" before "Advanced Mastery" when
\* both are there, and in each phase the skills in the order of the input.
C15_RoadmapShape ==
    call.op = "velocity" =>
        LET roadmap == call.result.roadmap
        IN  /\ call.missing = <<>> =>
                  call.result = [total_estimated_hours  |-> 0,
                                 weeks_to_readiness_x10 |-> 0,
                                 roadmap                |-> <<>>]
            /\ call.missing # <<>> =>
                  /\ Len(roadmap) \in {1, 2}
                  /\ \A k \in 1..Len(roadmap) :
                        /\ roadmap[k].phase \in {"Immediate Gaps", "Advanced Mastery"}
                        /\ roadmap[k].skills # <<>>
                        /\ roadmap[k].skill_details # <<>>
                        /\ \A a, b \in 1..Len(roadmap[k].skills) :
                              a < b => PlaceIn(roadmap[k].skills[a], call.missing)
                                         < PlaceIn(roadmap[k].skills[b], call.missing)
                  /\ Len(roadmap) = 2 =>
                        /\ roadmap[1].phase = "Immediate Gaps"
                        /\ roadmap[2].phase = "Advanced Mastery"

\* C15 witness: two phases, the second with two skills that an
\* "Immediate Gaps" skill separates in the input.
C15_Witness ==
    /\ call.op = "velocity"
    /\ Len(call.result.roadmap) = 2
    /\ Len(call.result.roadmap[2].skills) = 2
    /\ call.missing[2] \in Range(call.result.roadmap[1].skills)

(***************************************************************************)
(* Properties of the lookups (SpecLookup)                                  *)
(***************************************************************************)

\* sub occurs in s.
Contains(s, sub) ==
    \E i \in 1..(Len(s) - Len(sub) + 1) : SubSeq(s, i, i + Len(sub) - 1) = sub

\* C16: get_skill_resources returns a non-empty list for every name: the
\* curated entries of the catalog when the lowercased, trimmed name is a
\* key of it, and otherwise exactly two entries, an article search link
\* then a video search link, each carrying the skill name in its title and
\* in its URL; so every skill detail of every roadmap has a resource.
C16_ResourceLookupTotal ==
    /\ call.op = "get_skill_resources" =>
          LET key == Strip(Lower(call.skill))
              res == call.result
          IN  /\ res # <<>>
              /\ key \in DOMAIN SKILL_RESOURCES => res = SKILL_RESOURCES[key]
              /\ key \notin DOMAIN SKILL_RESOURCES =>
                    /\ Len(res) = 2
                    /\ res[1].type = "article"
                    /\ res[2].type = "video"
                    /\ \A k \in 1..2 :
                          /\ Contains(res[k].title, call.skill)
                          /\ Contains(res[k].url, PlusForSpace(call.skill))
                          /\ Contains(res[k].url, "search")
    /\ call.op = "velocity" =>
          \A k \in 1..Len(call.result.roadmap) :
              \A d \in 1..Len(call.result.roadmap[k].skill_details) :
                  call.result.roadmap[k].skill_details[d].resources # <<>>

\* C16 witness: a name that is a catalog key only once lowercased and
\* trimmed, answered with the curated entries.
C16_Witness ==
    /\ call.op = "get_skill_resources"
    /\ call.skill \notin DOMAIN SKILL_RESOURCES
    /\ Strip(Lower(call.skill)) \in DOMAIN SKILL_RESOURCES
    /\ Len(call.result) = 3

\* C17: get_category returns one of the five categories for every string:
\* the category under which SKILLS_TAXONOMY lists the normalized name, and
\* "tool" when it lists it nowhere; so the roadmap of a skill outside the
\* taxonomy is built, with that skill in "Immediate Gaps" as a tool of 10
\* hours.
C17_CategoryTotal ==
    /\ call.op = "get_category" =>
          LET s    == Strip(Lower(call.skill))
              norm == IF s \in DOMAIN SKILL_ALIASES THEN SKILL_ALIASES[s] ELSE s
              home == {c \in DOMAIN SKILLS_TAXONOMY : norm \in SKILLS_TAXONOMY[c]}
          IN  /\ call.result \in {"language", "framework", "tool", "database", "cloud"}
              /\ home # {} => call.result \in home
              /\ home = {} => call.result = "tool"
    /\ call.op = "velocity" =>
          \A skill \in Range(call.missing) :
              (\A c \in DOMAIN SKILLS_TAXONOMY : skill \notin SKILLS_TAXONOMY[c]) =>
                  \E k \in PhasesNamed(call.result.roadmap, "Immediate Gaps") :
                  \E d \in 1..Len(call.result.roadmap[k].skill_details) :
                      /\ call.result.roadmap[k].skill_details[d].name = skill
                      /\ call.result.roadmap[k].skill_details[d].category = "tool"
                      /\ call.result.roadmap[k].skill_details[d].hours = 10

\* C17 witness: a roadmap built for a skill the taxonomy does not list,
\* next to skills it does.
C17_Witness ==
    /\ call.op = "velocity"
    /\ Len(call.result.roadmap) = 2
    /\ \E skill \in Range(call.missing) :
          \A c \in DOMAIN SKILLS_TAXONOMY : skill \notin SKILLS_TAXONOMY[c]

(***************************************************************************)
(* Properties of the optional recognizer                                   *)
(***************************************************************************)

\* C18: when spaCy cannot be imported, or its model en_core_web_sm is not
\* downloaded, extract and extract_flat raise nothing and return exactly
\* the result of the keyword scan, on the first call and on every later one.
C18_EnrichmentDegradesSilently ==
    (call.op = "extract_flat" /\ spacy \in {"absent", "no_model"}) =>
        /\ call.raised = "none"
        /\ Range(call.flat) = call.scan.found
        /\ call.flat = Sorted(call.scan.found)

\* C19: when several workers are first users of the recognizer at the same
\* time (in a process where spaCy imports, so that there is a pipeline to
\* load), SkillExtractor._NLP is loaded exactly once, every worker leaves
\* _load_spacy with that one fully built pipeline, and once set the
\* attribute is never replaced.
C19_LoadedExactlyOnce ==
    spacy \in {"installed", "no_model"} =>
        /\ Len(loads) <= 1
        /\ \A k \in 1..Len(loads) : loads[k].was = "None"
        /\ \A t \in THREADS :
              threads[t].pc = "done" =>
                  /\ Len(loads) = 1
                  /\ threads[t].nlp = loads[1].value
                  /\ threads[t].nlp = LoadedPipeline(spacy)

(***************************************************************************)
(* Properties of the request's order of steps (Spec)                       *)
(***************************************************************************)

\* What the handler invokes once the inputs have passed validation.
CORE_CALLS ==
    {"extract_flat", "infer_skills_from_role", "calculate_semantic_match",
     "build_learning_velocity", "add_task", "save_gap_analysis"}

\* The extensions extract_text_from_file reads.
SupportedFormat(filename) ==
    \E low \in {Lower(filename)} :
        \E ext \in {".pdf", ".docx", ".txt"} : EndsWith(low, ext)

\* Why the request r is to be turned away, "" when it is not.
Rejection(r) ==
    IF Strip(r.jd_text) = "" THEN "blank jd"
    ELSE IF ~SupportedFormat(r.filename) THEN "format"
    ELSE IF Strip(r.content) = "" THEN "blank resume"
    ELSE ""

\* The status and the collaborators allowed for a request turned away for
\* the given reason: a blank jd_text is answered before the file is read.
RejectedAs(why, status, calls) ==
    /\ why = "blank jd" => status = 422 /\ calls = <<>>
    /\ why = "format" => status = 415 /\ Range(calls) \cap CORE_CALLS = {}
    /\ why = "blank resume" => status = 422 /\ Range(calls) \cap CORE_CALLS = {}

\* C20: a blank jd_text is rejected with 422 before the resume is read; an
\* unsupported resume format (415) and a resume without text (422) are
\* rejected before any extraction; and for such a request extraction,
\* scoring, roadmap building and persistence are never invoked: nothing is
\* queued and no document is written.
C20_ValidationPrecedesCore ==
    /\ \A k \in 1..Len(served) :
          \A why \in {Rejection(served[k].req)} :
              /\ why # "" => RejectedAs(why, served[k].response.status, served[k].trace)
              /\ why # "" => served[k].response.status # 200
    /\ pc # "idle" =>
          \A why \in {Rejection(req)} :
              why # "" =>
                  /\ Range(trace) \cap CORE_CALLS = {}
                  /\ why = "blank jd" => trace = <<>>
                  /\ background_tasks = <<>>
                  /\ response.status # 200
                  /\ pc = "done" => RejectedAs(why, response.status, trace)
    /\ Len(firestore) =
          Cardinality({k \in 1..Len(served) : served[k].response.status = 200})
          + (IF pc = "done" /\ response.status = 200 THEN 1 ELSE 0)

\* C20 witness: a request turned away for its blank jd_text and one turned
\* away for its file format have been served.
C20_Witness ==
    /\ Len(served) = 2
    /\ Rejection(served[1].req) = "blank jd"
    /\ served[1].response.status = 422
    /\ Rejection(served[2].req) = "format"
    /\ served[2].response.status = 415

(***************************************************************************)
(* Properties of the tables                                                *)
(***************************************************************************)

\* The details of every phase of a roadmap, in one sequence.
RECURSIVE DetailsOf(_)
DetailsOf(roadmap) ==
    IF roadmap = <<>> THEN <<>>
    ELSE Head(roadmap).skill_details \o DetailsOf(Tail(roadmap))

\* A curated list inside a result is the list the catalog started with.
CuratedAsWritten(velocity) ==
    \A d \in Range(DetailsOf(velocity.roadmap)) :
        ResourcesObject(d.name)[1] = "SKILL_RESOURCES"
            => /\ d.resources = SKILL_RESOURCES[ResourcesObject(d.name)[2]]
               /\ d.resources = tables.SKILL_RESOURCES[ResourcesObject(d.name)[2]]

\* C21: static tables are read-only.  After any sequence of extract,
\* extract_flat, get_category, score, roadmap and get_skill_resources calls,
\* and after saving any returned dict, the taxonomy, the alias table, the
\* skill-to-category map, the HTL table and the resource catalog hold their
\* initial contents, and so does every curated list handed out in a roadmap.
C21_StaticTablesReadOnly ==
    /\ tables = STATIC_TABLES
    /\ call.op = "velocity" => CuratedAsWritten(call.result)
    /\ \A k \in 1..Len(firestore) :
           "roadmap" \in DOMAIN firestore[k].data => CuratedAsWritten(firestore[k].data)

\* A roadmap that carries the catalog's lists for kubernetes and python has
\* been saved, and an extract call that the recognizer enriched has returned.
C21_Witness ==
    /\ Len(firestore) = 1
    /\ "roadmap" \in DOMAIN firestore[1].data
    /\ \E d \in Range(DetailsOf(firestore[1].data.roadmap)) :
           ResourcesObject(d.name) = <<"SKILL_RESOURCES", "python">>
    /\ call.op = "extract"
    /\ call.raised = "none"
    /\ Range(call.flat) \ call.scan.found # {}

(***************************************************************************)
(* Properties of the cleaning                                              *)
(***************************************************************************)

\* The characters the cleaning is said to keep: letters, digits, whitespace
\* and the five punctuation marks.
Listed(c) ==
    CharIn(c, UPPER) \/ CharIn(c, LOWER) \/ CharIn(c, DIGITS) \/ IsSpace(c)
        \/ c \in KEPT_PUNCTUATION

\* The text with a space in place of every character that is not listed.
RECURSIVE SeparatedOf(_, _, _)
SeparatedOf(s, lo, hi) ==
    IF lo > hi THEN ""
    ELSE IF lo = hi THEN (IF Listed(CharAt(s, lo)) THEN CharAt(s, lo) ELSE " ")
    ELSE LET mid == (lo + hi) \div 2
         IN  SeparatedOf(s, lo, mid) \o SeparatedOf(s, mid + 1, hi)

Separated(s) == SeparatedOf(s, 1, Len(s))

\* C22: input cleaning.  The cleaned text is lowercase, holds only listed
\* characters, has no run of whitespace and no space at either end, and a
\* character that is not listed separates tokens: the scan finds what it
\* finds in the text that has a space in its place.
C22_InputCleaning ==
    call.op = "extract_flat" =>
        \A clean \in {Clean(call.text)} :
            /\ clean = Lower(clean)
            /\ \A i \in 1..Len(clean) : Listed(CharAt(clean, i))
            /\ \A i \in 1..Len(clean) :
                   IsSpace(CharAt(clean, i))
                       => /\ CharAt(clean, i) = " "
                          /\ 1 < i /\ i < Len(clean)
                          /\ ~IsSpace(CharAt(clean, i + 1))
            /\ Split(clean) = Split(Strip(Lower(Separated(call.text))))
            /\ call.scan.found = _keyword_match(Separated(call.text))

(***************************************************************************)
(* Properties of the alias table                                           *)
(***************************************************************************)

\* Whether a match of the scan covers a position of the window [i, i+size).
Overlapped(matches, i, size) ==
    \E k \in 1..Len(matches) :
        /\ matches[k].i < i + size
        /\ i < matches[k].i + matches[k].size

\* C23: the alias table is well formed.  For every phrase of up to three
\* tokens of a text: normalizing it twice gives what normalizing it once
\* gives; and if it is an alias, its target is a skill of the taxonomy and
\* is among the skills the scan finds, unless a match of the scan took one
\* of its tokens.
C23_AliasTableWellFormed ==
    call.op = "extract_flat" =>
        \A tokens \in {Tokenize(call.text)} :
            \A size \in Range(WINDOW_SIZES) :
                \A i \in 0..(Len(tokens) - size) :
                    \A p \in {JoinWindow(tokens, i, size)} :
                        /\ _normalize(_normalize(p)) = _normalize(p)
                        /\ p \in DOMAIN SKILL_ALIASES
                             => /\ SKILL_ALIASES[p] \in DOMAIN _SKILL_TO_CATEGORY
                                /\ \/ SKILL_ALIASES[p] \in call.scan.found
                                   \/ Overlapped(call.scan.matches, i, size)

(***************************************************************************)
(* Properties of the persistence (Spec)                                    *)
(***************************************************************************)

\* How often a collaborator occurs in a trace.
Count(calls, name) == Cardinality({k \in 1..Len(calls) : calls[k] = name})

\* The collaborators of a computed analysis, in the order of the handler:
\* scoring, then the roadmap, then add_task, each once, and nothing between.
ScheduledAfterCore(calls) ==
    /\ Count(calls, "add_task") = 1
    /\ \E k \in 3..Len(calls) :
          /\ calls[k] = "add_task"
          /\ calls[k - 1] = "build_learning_velocity"
          /\ calls[k - 2] = "calculate_semantic_match"
          /\ \A j \in 1..(k - 1) : calls[j] # "save_gap_analysis"

\* Whether the request with this outcome returned a computed analysis.
Computed(status, calls) == status = 200 /\ "calculate_semantic_match" \in Range(calls)

\* The documents the computed analyses of the served requests call for, in
\* the order the requests were served.
RECURSIVE AnalysesOf(_)
AnalysesOf(done) ==
    IF done = <<>> THEN <<>>
    ELSE (IF Computed(Head(done).response.status, Head(done).trace)
          THEN << [user_id |-> Head(done).req.user_id,
                   data    |-> Head(done).response.body[1]] >>
          ELSE <<>>)
         \o AnalysesOf(Tail(done))

\* C24: persistence is fire-and-forget and ordered after the result.  A
\* request that returns a computed analysis schedules save_gap_analysis
\* exactly once, after scoring and roadmap building, with the payload it
\* returns, and the save runs after the response; any other request (a
\* validation error, a job description that yields no skill) schedules it
\* zero times; the documents written are the payloads returned, unchanged.
C24_PersistenceAfterResult ==
    /\ \A k \in 1..Len(served) :
          IF Computed(served[k].response.status, served[k].trace)
          THEN /\ ScheduledAfterCore(served[k].trace)
               /\ Count(served[k].trace, "save_gap_analysis") = 1
               /\ served[k].trace[Len(served[k].trace)] = "save_gap_analysis"
          ELSE /\ Count(served[k].trace, "add_task") = 0
               /\ Count(served[k].trace, "save_gap_analysis") = 0
    /\ \A k \in 1..Len(served) :
          "infer_skills_from_role" \in Range(served[k].trace)
              => ~Computed(served[k].response.status, served[k].trace)
    /\ pc \in {"idle", "validate", "parse", "extract", "fallback", "score"}
          => /\ background_tasks = <<>>
             /\ Count(trace, "add_task") = 0
    /\ pc = "responded"
          => /\ Computed(response.status, trace)
             /\ ScheduledAfterCore(trace)
             /\ background_tasks = << [task    |-> "save_gap_analysis",
                                       user_id |-> req.user_id,
                                       payload |-> response.body[1]] >>
    /\ pc = "done"
          => /\ background_tasks = <<>>
             /\ Count(trace, "add_task") = (IF Computed(response.status, trace) THEN 1 ELSE 0)
             /\ Count(trace, "save_gap_analysis") = Count(trace, "add_task")
    /\ [k \in 1..Len(firestore) |->
           [user_id |-> firestore[k].user_id, data |-> firestore[k].data]]
         = AnalysesOf(served)
             \o (IF pc = "done" /\ Computed(response.status, trace)
                 THEN << [user_id |-> req.user_id, data |-> response.body[1]] >>
                 ELSE <<>>)

\* C24 witness: a request that returned a computed analysis has been served
\* and its payload stored once; a request turned away with 422 has been
\* served after it and stored nothing.
C24_Witness ==
    /\ Len(served) = 2
    /\ Computed(served[1].response.status, served[1].trace)
    /\ served[2].response.status = 422
    /\ Len(firestore) = 1
    /\ firestore[1].data = served[1].response.body[1]
    /\ firestore[1].data.missing_skills # <<>>

(***************************************************************************)
(* Monotonicity of the scorer and of the roadmap built on it               *)
(***************************************************************************)

\* Skills a resume may gain: the pool, a name not yet lowercased and
\* trimmed, and one the taxonomy does not know.
ADDED_SKILLS == SKILL_POOL \cup {" Docker ", "unreal engine"}

\* total_estimated_hours of the roadmap for the missing skills.
RoadmapHours(missing, hours_per_week) ==
    build_learning_velocity(missing, hours_per_week).total_estimated_hours

\* C25: monotonicity of the scorer.  For a job description with at least
\* one skill, a resume that gains a skill gets a match_percentage and a
\* job_readiness_score that are not lower, a missing_skills list with no
\* new member, and a roadmap whose total_estimated_hours are not higher.
C25_ScorerMonotone ==
    (call.op = "score" /\ SkillSetOf(call.jd) # {}) =>
        \A before \in {RoadmapHours(call.result.missing_skills, MIN_HOURS_PER_WEEK)} :
            \A s \in ADDED_SKILLS :
                \A more \in {calculate_semantic_match(Append(call.resume, s), call.jd)} :
                    /\ more.match_percentage_x100 >= call.result.match_percentage_x100
                    /\ more.job_readiness_score_x100
                           >= call.result.job_readiness_score_x100
                    /\ Range(more.missing_skills)
                           \subseteq Range(call.result.missing_skills)
                    /\ RoadmapHours(more.missing_skills, MIN_HOURS_PER_WEEK) <= before

\* C25 witness: a scored resume lacks a skill of the job description, and
\* gaining it raises both scores and shortens the roadmap.
C25_Witness ==
    /\ call.op = "score"
    /\ call.result.matched_skills # <<>>
    /\ \E s \in Range(call.result.missing_skills) :
           \E more \in {calculate_semantic_match(Append(call.resume, s), call.jd)} :
               /\ more.match_percentage_x100 > call.result.match_percentage_x100
               /\ more.job_readiness_score_x100 > call.result.job_readiness_score_x100
               /\ s \notin Range(more.missing_skills)
               /\ RoadmapHours(more.missing_skills, MIN_HOURS_PER_WEEK)
                      < RoadmapHours(call.result.missing_skills, MIN_HOURS_PER_WEEK)

====
